---- MODULE Spec2Model ----
(***************************************************************************)
(* AttentionBackwardKernel (evoformer_attn/kernel_backward.h): the tile    *)
(* loop of attention_kernel, the stages of processBlockIJ, the three       *)
(* gradient accumulators with their register / workspace / direct-add      *)
(* paths, computeDelta, loadDi, zfillGradKV and writeFragsToGmem.          *)
(*                                                                         *)
(* Values are symbolic.  A floating-point sum is the bag of its terms:     *)
(*   - a gradient cell holds a bag of row intervals <<lo, hi>>, one per    *)
(*     multiply that was added into it (the rows lo .. hi-1 of the other   *)
(*     sequence that the multiply reduced over);                           *)
(*   - a delta entry holds a bag of column intervals <<lo, hi>>, one per   *)
(*     vector load that was added into it;                                 *)
(*   - Stale is the unknown content memory had before the kernel ran.      *)
(* The empty bag is the value zero.                                        *)
(***************************************************************************)
EXTENDS Integers, Sequences, FiniteSets, Bags, TLC

VARIABLES
    K,              \* template arguments of the kernel instantiation
    p,              \* Params (dimensions)
    pc,             \* position in attention_kernel / processBlockIJ
    dq,             \* query_start of the delta loops
    key_start, query_start, query_end,
    fullKey,        \* TRUE in the full-key-tile loop, FALSE in "last (partial) key"
    site,           \* call site of the running processBlockIJ
    skip,           \* its skipBoundsChecks template argument
    col,            \* column loop variable of the running GradV/GradQ/GradK loop
    isFirstQuery, isLastQuery, nqib, nkib,  \* locals of processBlockIJ
    output_frags,   \* OutputFragments: gradV, gradK
    delta,          \* p.delta_ptr[...]
    di,             \* shared_storage.di()
    grad_query, grad_key, grad_value,       \* output tensors
    workspace_gk, workspace_gv, workspace_gq,
    syncs,          \* number of __syncthreads() executed so far
    deltaSync,      \* value of syncs when delta was last written (-1: never)
    calls,          \* history: the processBlockIJ calls made so far
    writes,         \* history: the epilogue writes to the output tensors
    supported,      \* <<>>, or <<b>> once check_supported(p) has returned b
    smem,           \* history: shared-memory events of the running processBlockIJ
    ws_log,         \* history: the workspace tiles loaded and stored so far
    bias_log,       \* history: the bias tiles read, the bias-gradient tiles
                    \* written and the score-gradient tiles stored
    prefetch,       \* history: the calls of prologueQkNextIteration
    block           \* <<>>, or <<r>> once advance_to_block has left r in Params

cfgVars  == <<K, p, block>>
loopVars == <<key_start, query_start, query_end, fullKey>>
pbVars   == <<site, skip, col, isFirstQuery, isLastQuery, nqib, nkib>>
outVars  == <<grad_query, grad_key, grad_value>>
wsVars   == <<workspace_gk, workspace_gv, workspace_gq>>
dVars    == <<dq, delta, deltaSync>>
logVars  == <<smem, ws_log, bias_log, prefetch>>
vars == <<K, p, pc, dq, key_start, query_start, query_end, fullKey, site, skip,
          col, isFirstQuery, isLastQuery, nqib, nkib, output_frags, delta, di,
          grad_query, grad_key, grad_value, workspace_gk, workspace_gv,
          workspace_gq, syncs, deltaSync, calls, writes, supported, smem,
          ws_log, bias_log, prefetch, block>>

-----------------------------------------------------------------------------
(* Bounds of the model *)

MaxSeq == 65        \* longest sequence (queries or keys)
MaxHeadDim == 40    \* largest feature dimension in the tile-loop configurations
MaxDeltaDim == 48   \* largest head_dim_value in the computeDelta configurations
MaxLongSeq == 46341 \* longest sequence in the offset computations

-----------------------------------------------------------------------------
(* Program constants *)

kWarpSize == 32
kThreadsPerKey == 8
kPipelineStages == 2
kUnrollLimit == 256
kMinComputeCapabilityV100 == 70
kHalfBits == 16
kAccessBits == 128
kAccessElements == 4    \* GmemTile::AccessType::kElements
kFloatBytes == 4        \* sizeof(float)
kInt32Bytes == 4        \* sizeof(int32_t)
kInt64Bytes == 8        \* sizeof(int64_t)

-----------------------------------------------------------------------------
(* Arithmetic helpers *)

Min(a, b) == IF a < b THEN a ELSE b

ceil_div(a, b) == (a + b - 1) \div b

align_up(a, b) == ceil_div(a, b) * b

\* a XOR i for i a power of two
XorBit(a, i) == IF (a \div i) % 2 = 0 THEN a + i ELSE a - i

-----------------------------------------------------------------------------
(* Symbolic values *)

Stale == <<-1, -1>>
StaleBag == SetToBag({Stale})
Zero == EmptyBag
Term(lo, hi) == SetToBag({<<lo, hi>>})

\* The sum over the columns a .. b-1 plus the sum over b .. c-1 is the sum over
\* a .. c-1: Merge replaces the intervals of a bag by their maximal runs when
\* they are pairwise disjoint and each occurs once.  A bag merges to the single
\* interval <<0, n>> exactly when its intervals cover each of 0 .. n-1 once.
Merge(B) ==
    LET S == { x \in BagToSet(B) : x[1] < x[2] }
        disjoint == /\ \A x \in S : B[x] = 1
                    /\ \A x \in S : \A y \in S :
                          x = y \/ x[2] <= y[1] \/ y[2] <= x[1]
        covered(f) == \E x \in S : x[1] <= f /\ f < x[2]
        los == { x[1] : x \in S } \ { x[2] : x \in S }
        his == { x[2] : x \in S } \ { x[1] : x \in S }
        runs == { r \in los \X his :
                    r[1] < r[2] /\ \A f \in r[1] .. r[2] - 1 : covered(f) }
        rest == BagToSet(B) \ S
    IN  IF ~disjoint THEN B
        ELSE SetToBag(runs) (+) [x \in rest |-> B[x]]

-----------------------------------------------------------------------------
(* Compile-time configuration *)

kBlockSizeI == K.I
kBlockSizeJ == K.J
kMaxK == K.maxK
kIsHalf == K.half
kOutputInRF == kIsHalf /\ kMaxK <= kBlockSizeI
kApplyDropout == K.dropout
kPreload == K.preload
\* Broadcast1_ / Broadcast2_ other than BroadcastNoLoad
broadcast_1_kEnable == K.bias1
broadcast_2_kEnable == K.bias2
\* GemmType::kMinimumAlignment, fixed by the architecture and the element type
kMinimumAlignment == K.align
\* MatmulGradK::DefaultMmaFromSmem::kIsTransposedA
kIsTransposedA == kPreload
\* output_accum_t is float and output_t is scalar_t: they differ exactly for
\* the 16-bit scalar types
kNeedsAccumGradQ == kIsHalf
\* (a variant without the test of kOutputInRF)
kNeedsAccumGradK_alsoInRF == kIsHalf

kNeedsAccumGradK == ~kOutputInRF /\ kIsHalf
kNeedsAccumGradV == ~kOutputInRF /\ kIsHalf
kKernelComputesDelta ==
    kIsHalf /\ (kOutputInRF \/ K.arch # kMinComputeCapabilityV100)
kNumWarpsPerBlock == (kBlockSizeI * kBlockSizeJ) \div (32 * 32)
kNumThreads == kWarpSize * kNumWarpsPerBlock
Threads == 0 .. kNumThreads - 1

\* ThreadblockShape::kN of MatmulGradV, MatmulGradQ, MatmulGradK
kN_GradV == kBlockSizeI
kN_GradQ == kBlockSizeJ
kN_GradK == kBlockSizeI
kSingleIterationGradV == kMaxK <= kN_GradV
kSingleIterationGradQ == kMaxK <= kN_GradQ
kSingleIterationGradK == kMaxK <= kN_GradK

-----------------------------------------------------------------------------
(* Tile scheduler *)

\* (a variant that starts the query loop of the later key tiles one tile in)
getQueryStart_skipping(ks) == IF ks = 0 THEN 0 ELSE kBlockSizeI

getQueryStart(ks) == 0

\* (a variant with > in place of >=)
incrIteration_strict(qs, ks) ==
    LET nq == qs + kBlockSizeI IN
    IF nq > p.num_queries
    THEN <<getQueryStart(ks + kBlockSizeJ), ks + kBlockSizeJ>>
    ELSE <<nq, ks>>

\* incrIteration: <<next_query, next_key>>
incrIteration(qs, ks) ==
    LET nq == qs + kBlockSizeI IN
    IF nq >= p.num_queries
    THEN <<getQueryStart(ks + kBlockSizeJ), ks + kBlockSizeJ>>
    ELSE <<nq, ks>>

-----------------------------------------------------------------------------
(* computeDelta<kElementsPerAccess> *)

kOptimalElements == kAccessBits \div kHalfBits

kNumThreadsPerLine == kNumThreads \div kBlockSizeI

\* One thread's column loop.  laneFirstCol is the first column of the thread,
\* rowPred its row predicate.  The state of the loop is
\*   iter    the loop variable
\*   pred    the running load predicate
\*   ptr     the column the thread's pointers are at
\*   frag    the two pipeline stages: the interval loaded, or <<>> for the
\*           cleared fragment of a predicated-off load
\*   val     delta_value
loadAndIncrement(E, st, ld_pos, is_valid) ==
    [st EXCEPT !.frag[ld_pos] = IF is_valid THEN <<st.ptr, st.ptr + E>> ELSE <<>>,
               !.ptr = st.ptr + E * kNumThreadsPerLine]

columnIteration(E, laneFirstCol, st) ==
    LET iter == st.iter
        ld_pos == (iter + kPipelineStages - 1) % kPipelineStages
        pred == st.pred /\
                (laneFirstCol + (iter + kPipelineStages - 1) * E * kNumThreadsPerLine)
                    < p.head_dim_value
        st1 == loadAndIncrement(E, [st EXCEPT !.pred = pred], ld_pos, pred)
        f == st.frag[iter % kPipelineStages]
    IN  [st1 EXCEPT !.val = IF f = <<>> THEN st.val ELSE st.val (+) Term(f[1], f[2]),
                    !.iter = iter + 1]

\* for (; iter < n; ++iter): the iterations from st.iter up to n in order,
\* those below the midpoint first and then the rest
RECURSIVE columnLoop(_, _, _, _)
columnLoop(E, laneFirstCol, st, n) ==
    IF st.iter >= n THEN st
    ELSE IF st.iter + 1 = n THEN columnIteration(E, laneFirstCol, st)
    ELSE columnLoop(E, laneFirstCol,
                    columnLoop(E, laneFirstCol, st, (st.iter + n) \div 2), n)

kMaxIters(E) == kMaxK \div (E * kNumThreadsPerLine)

numIters(E) ==
    IF kMaxK <= kUnrollLimit
    THEN kMaxIters(E)
    ELSE ceil_div(p.head_dim_value, E * kNumThreadsPerLine) * (E * kNumThreadsPerLine)

threadDelta(E, laneFirstCol, rowPred) ==
    LET pred0 == rowPred /\ laneFirstCol < p.head_dim_value
        st0 == loadAndIncrement(E,
                   [iter |-> 0, pred |-> pred0, ptr |-> laneFirstCol,
                    frag |-> [i \in 0 .. kPipelineStages - 1 |-> <<>>],
                    val |-> Zero],
                   0, pred0)
    IN  columnLoop(E, laneFirstCol, st0, numIters(E)).val

\* the __shfl_xor_sync butterfly over the threads that share a row
RECURSIVE shflReduce(_, _)
shflReduce(v, i) ==
    IF i >= kNumThreadsPerLine THEN v
    ELSE shflReduce(
             [t \in Threads |->
                 LET lane == t % kWarpSize
                     peer == (t - lane) + XorBit(lane, i)
                 IN  v[t] (+) v[peer]],
             2 * i)

\* the delta array after computeDelta<E>(p, qs, ...).  A thread's loop depends
\* on the thread only through laneFirstCol and rowPred.
computeDelta(E, qs, d) ==
    LET laneRow(t) == t \div kNumThreadsPerLine
        rowPred(t) == (qs + laneRow(t)) < p.num_queries
        loop == [c \in 0 .. kNumThreadsPerLine - 1, rp \in BOOLEAN |->
                    threadDelta(E, E * c, rp)]
        v0 == [t \in Threads |->
                  loop[(t % kWarpSize) % kNumThreadsPerLine, rowPred(t)]]
        v == shflReduce(v0, 1)
    IN  [r \in DOMAIN d |->
            LET writers == { t \in Threads : laneRow(t) = r - qs /\ rowPred(t) }
            IN  IF writers # {}
                THEN Merge(v[CHOOSE t \in writers : TRUE])
                ELSE d[r]]

deltaElements == IF p.head_dim_value % kOptimalElements = 0 THEN kOptimalElements ELSE 1

-----------------------------------------------------------------------------
(* loadDi *)

loadDi(qs) ==
    [t \in 0 .. kBlockSizeI - 1 |->
        IF t \in Threads /\ qs + t < p.num_queries THEN delta[qs + t] ELSE Zero]

-----------------------------------------------------------------------------
(* Output tensors and workspace *)

\* GmemTile::kElementsStored = kNumThreads * FragmentType::kElements: one
\* accumulator tile
kElementsStored == kBlockSizeI * kBlockSizeJ

workspace_elements_gk ==
    IF ~kNeedsAccumGradK THEN 0
    ELSE align_up(p.num_keys, kBlockSizeJ) * align_up(p.head_dim, kBlockSizeI)

workspace_elements_gv ==
    IF ~kNeedsAccumGradV THEN 0
    ELSE align_up(p.num_keys, kBlockSizeJ) * align_up(p.head_dim_value, kBlockSizeI)

workspace_elements_gq ==
    IF ~kNeedsAccumGradQ THEN 0
    ELSE IF p.num_keys <= kBlockSizeJ THEN 0
    ELSE align_up(p.num_queries, kBlockSizeI) * align_up(p.head_dim, kBlockSizeJ)

workspace_strideBH ==
    align_up(workspace_elements_gk + workspace_elements_gv + workspace_elements_gq,
             kAccessElements)

\* in bytes
workspace_size == p.num_batches * p.num_heads * workspace_strideBH * kFloatBytes

\* advance_to_block: the three workspace pointers of block (batch_id, head_id),
\* as element offsets from the start of the buffer the host allocated.  (In a
\* kernel where no accumulator needs the workspace the pointer is nullptr and
\* these offsets are never used.)
\* (a variant that forgets the GradKey plane when placing the GradQuery plane)
workspace_ptr_overlapping(plane) ==
    LET workspace == (p.batch_id * p.num_heads + p.head_id) * workspace_strideBH
        gv == workspace + workspace_elements_gk
    IN  CASE plane = "gk" -> workspace
          [] plane = "gv" -> gv
          [] plane = "gq" -> workspace + workspace_elements_gv

workspace_ptr(plane) ==
    LET workspace == (p.batch_id * p.num_heads + p.head_id) * workspace_strideBH
        gv == workspace + workspace_elements_gk
    IN  CASE plane = "gk" -> workspace
          [] plane = "gv" -> gv
          [] plane = "gq" -> gv + workspace_elements_gv

\* GmemTile: AccumTileGmem gmem_tile{ptr + storage_id * kElementsStored}
kStride == kNumThreads * kAccessElements
kNumIters == (kElementsStored \div kNumThreads) \div kAccessElements
\* (a variant that leaves out the offset of the slot)
gmem_tile_noOffset(plane, storage_id) == workspace_ptr(plane)

gmem_tile(plane, storage_id) == workspace_ptr(plane) + storage_id * kElementsStored

\* GmemTile::load / GmemTile::store: the first and the last element the
\* threads of the block touch (thread_id * 4 + i * kStride + j from the tile
\* pointer, over all threads, i < kNumIters and j < 4)
GmemTileRange(ptr) ==
    << ptr,
       ptr + (kNumThreads - 1) * kAccessElements + (kNumIters - 1) * kStride
           + (kAccessElements - 1) >>

\* FragmentType::kElements: the elements of the accumulator one thread holds
kElements == kElementsStored \div kNumThreads

\* (a variant that lays the fragment of a thread out contiguously)
GmemTile_load_contiguous(ptr, thread_id) ==
    [e \in 0 .. kElements - 1 |-> ptr + thread_id * kElements + e]

\* GmemTile::load: the address fragment[i * 4 + j] is read from, for
\* i < kNumIters and j < AccessType::kElements
GmemTile_load(ptr, thread_id) ==
    [e \in 0 .. kElements - 1 |->
        LET i == e \div kAccessElements
            j == e % kAccessElements
        IN  ptr + thread_id * kAccessElements + i * kStride + j]

\* GmemTile::store: the address fragment[i * 4 + j] is written to
GmemTile_store(ptr, thread_id) ==
    [e \in 0 .. kElements - 1 |->
        LET i == e \div kAccessElements
            j == e % kAccessElements
        IN  ptr + thread_id * kAccessElements + i * kStride + j]

WsAccess(op, plane, storage_id) ==
    [op |-> op, plane |-> plane, ptr |-> gmem_tile(plane, storage_id),
     q |-> query_start, k |-> key_start, col |-> col]

\* a tensor of `rows` rows (padded to whole tiles) whose columns are grouped in
\* chunks of kN; every cell starts with the content memory had before
Tensor(rows, tile, dim, kN) ==
    [r \in 0 .. align_up(rows, tile) - 1 |->
        [c \in 0 .. ceil_div(dim, kN) - 1 |-> StaleBag]]

Workspace(elements) ==
    [s \in 0 .. (elements \div kElementsStored) - 1 |-> StaleBag]

\* (a variant whose epilogue adds to the destination whatever `first` is)
accumulateInGmem_alwaysAdds(mem, row0, nrows, col0, kN, extent, dim, frag, first) ==
    [r \in DOMAIN mem |->
        [c \in DOMAIN mem[r] |->
            IF /\ r >= row0 /\ r < row0 + nrows
               /\ c = col0 \div kN
               /\ extent > 0
               /\ Min(kN, extent) >= Min(kN, dim - col0)
            THEN mem[r][c] (+) frag
            ELSE mem[r][c]]]

\* The epilogue of accumulateInGmem through an OutputTileIterator placed at
\* (row0, col0) with extent (nrows, extent): it covers the kN columns of one
\* accumulator tile, clipped to the extent.  ScaleType::Nothing stores the
\* accumulator, NoBetaScaling adds it to the destination.
accumulateInGmem(mem, row0, nrows, col0, kN, extent, dim, frag, first) ==
    [r \in DOMAIN mem |->
        [c \in DOMAIN mem[r] |->
            IF /\ r >= row0 /\ r < row0 + nrows
               /\ c = col0 \div kN
               /\ extent > 0
               /\ Min(kN, extent) >= Min(kN, dim - col0)
            THEN IF first THEN frag ELSE mem[r][c] (+) frag
            ELSE mem[r][c]]]

WriteRec(t, row0, nrows, c, first) ==
    [t |-> t, row0 |-> row0, nrows |-> nrows, c |-> c, first |-> first,
     call |-> Len(calls), at |-> pc]

-----------------------------------------------------------------------------
(* zfillGradKV<skipBoundsChecks> *)

kParallelKeys == kNumThreads \div kThreadsPerKey

\* (a variant without the bounds check on the key)
zfillElements_unchecked(skipBoundsChecks, ks, dim) ==
    { <<ks + j + (t \div kThreadsPerKey), k>> :
        <<t, j, k>> \in
          { x \in Threads \X (0 .. kBlockSizeJ - 1) \X (0 .. dim - 1) :
              /\ x[2] % kParallelKeys = 0
              /\ x[3] >= (x[1] % kWarpSize) % kThreadsPerKey
              /\ (x[3] - ((x[1] % kWarpSize) % kThreadsPerKey)) % kThreadsPerKey = 0 } }

\* the <<key, k>> elements the threads store zero to, for a tensor of `dim`
\* columns
zfillElements(skipBoundsChecks, ks, dim) ==
    { <<ks + j + (t \div kThreadsPerKey), k>> :
        <<t, j, k>> \in
          { x \in Threads \X (0 .. kBlockSizeJ - 1) \X (0 .. dim - 1) :
              /\ x[2] % kParallelKeys = 0
              /\ (skipBoundsChecks \/ ks + x[2] + (x[1] \div kThreadsPerKey) < p.num_keys)
              /\ x[3] >= (x[1] % kWarpSize) % kThreadsPerKey
              /\ (x[3] - ((x[1] % kWarpSize) % kThreadsPerKey)) % kThreadsPerKey = 0 } }

\* a cell is zero once every one of its columns below dim has been stored to
zfill(mem, Z, kN, dim) ==
    [r \in DOMAIN mem |->
        [c \in DOMAIN mem[r] |->
            IF \A k \in (c * kN) .. (Min(dim, (c + 1) * kN) - 1) : <<r, k>> \in Z
            THEN Zero
            ELSE mem[r][c]]]

-----------------------------------------------------------------------------
(* SharedStorage: the buffers and where the union places them *)

\* SharedStorageNoPrologue: the anonymous union has the alternatives part1 ..
\* part6 (part3 is itself a union of a struct, "part3", and gradB_epilogue,
\* "part3b"); every alternative is the list of its members in declaration
\* order, a member being the set of buffers that share it (an inner union)
SharedStorageNoPrologue ==
    [persistent |-> << {"di"} >>,
     part1 |-> << {"mm_qk_k"}, {"mm_qk_q"} >>,
     part2 |-> << {"bias", "attn"}, {"zij"}, {"mm_gradV", "gradV_epilogue"} >>,
     part3 |-> << {"attn"}, {"zij"}, {"mm_doivj"} >>,
     part3b |-> << {"gradB_epilogue"} >>,
     part4 |-> << {"tmpT"}, {"tmp"},
                  {"mm_gradQ", "gradQ_epilogue", "gradQ_epilogue_lastIter"} >>,
     part5 |-> << {"tmpT"}, {"tmp"}, {"mm_gradK", "gradK_epilogue"} >>,
     part6 |-> << {"gradK_epilogue_final"}, {"gradV_epilogue_final"} >>]

SharedStoragePrologue ==
    [persistent |-> << {"di"}, {"mm_qk_k"} >>,
     part1 |-> << {"bias", "attn"}, {"zij"}, {"mm_gradV", "gradV_epilogue"},
                  {"mm_doivj"} >>,
     part2 |-> << {"tmpT", "tmp"}, {"mm_gradK"}, {"mm_gradQ"},
                  {"gradB_epilogue", "gradQ_epilogue"} >>,
     part3 |-> << {"tmpT", "tmp"}, {"mm_gradK"}, {"gradQ_epilogue_lastIter"},
                  {"gradK_epilogue"} >>,
     part4 |-> << {"mm_qk_q"}, {"gradK_epilogue_final"},
                  {"gradV_epilogue_final"} >>]

\* using SharedStorage = conditional<kPreload, SharedStoragePrologue,
\*                                   SharedStorageNoPrologue>
SharedStorage == IF kPreload THEN SharedStoragePrologue ELSE SharedStorageNoPrologue

\* FIELD(INSIDE_STRUCT, FIELDNAME): the alternative each accessor goes through
FieldsNoPrologue ==
    [di |-> "persistent", mm_qk_k |-> "part1", mm_qk_q |-> "part1",
     bias |-> "part2", attn |-> "part2", zij |-> "part2", mm_gradV |-> "part2",
     gradV_epilogue |-> "part2", mm_doivj |-> "part3",
     gradB_epilogue |-> "part3b", tmpT |-> "part4", tmp |-> "part4",
     mm_gradQ |-> "part4", gradQ_epilogue |-> "part4",
     gradQ_epilogue_lastIter |-> "part4", mm_gradK |-> "part5",
     gradK_epilogue |-> "part5", gradK_epilogue_final |-> "part6",
     gradV_epilogue_final |-> "part6"]

FieldsPrologue ==
    [di |-> "persistent", mm_qk_k |-> "persistent", bias |-> "part1",
     attn |-> "part1", zij |-> "part1", mm_gradV |-> "part1",
     gradV_epilogue |-> "part1", mm_doivj |-> "part1", mm_gradK |-> "part2",
     mm_gradQ |-> "part2", gradB_epilogue |-> "part2",
     gradQ_epilogue |-> "part2", tmp |-> "part2", tmpT |-> "part3",
     gradQ_epilogue_lastIter |-> "part3", gradK_epilogue |-> "part3",
     mm_qk_q |-> "part4", gradK_epilogue_final |-> "part4",
     gradV_epilogue_final |-> "part4"]

Fields == IF kPreload THEN FieldsPrologue ELSE FieldsNoPrologue

PartOf(buf) == Fields[buf]

\* the position of the buffer among the members of its alternative
SlotOf(buf) ==
    CHOOSE i \in DOMAIN SharedStorage[PartOf(buf)] : buf \in SharedStorage[PartOf(buf)][i]

\* MatmulQK::AccumulatorSharedStorage is the type of attn_shared_storage and
\* of tmpT_shared_storage
HasAttnType(buf) == buf \in {"attn", "tmpT"}

\* b occupies memory of the attention-weight tile: it is another buffer of the
\* same inner union, or it belongs to another alternative of the union and no
\* member in front of it is as large as the tile (the tile is the first
\* member of its alternative)
AliasesAttn(b) ==
    /\ b # "attn"
    /\ PartOf(b) # "persistent"
    /\ IF PartOf(b) = PartOf("attn") \/ (PartOf(b) = "part3" /\ ~kPreload)
       THEN SlotOf(b) = SlotOf("attn")
       ELSE ~ \E i \in 1 .. SlotOf(b) - 1 :
                \E x \in SharedStorage[PartOf(b)][i] : HasAttnType(x)

-----------------------------------------------------------------------------
(* The shared-memory accesses and barriers of processBlockIJ, in program order *)

\* (a variant that is not a barrier)
syncthreads_skipped == [buf |-> "none", op |-> "none"]

\* __syncthreads()
syncthreads == [buf |-> "block", op |-> "sync"]

W(buf) == [buf |-> buf, op |-> "w"]
R(buf) == [buf |-> buf, op |-> "r"]
Opt(cond, items) == IF cond THEN items ELSE <<>>

\* a threadblock-scoped multiply with its operand staging buffer: operand
\* tiles go from global memory to the buffer and from there to the registers
mma(storage) == <<W(storage), R(storage)>>

\* an epilogue with its staging buffer
epilogue(storage) == <<W(storage), R(storage)>>

Barriers(items) == Cardinality({ i \in DOMAIN items : items[i].op = "sync" })

\* the accesses among the items, each with its stage and the number of
\* barriers the block has executed before it
Events(stage, items) ==
    LET ev(i) == [buf |-> items[i].buf, op |-> items[i].op, stage |-> stage,
                  epoch |-> syncs + Barriers(SubSeq(items, 1, i - 1))]
    IN  SelectSeq([i \in DOMAIN items |-> ev(i)], LAMBDA e : e.op \in {"r", "w"})

kPrologueQK == kPreload
kPrologueGV == kPreload
kPrologueDOV == kPreload
kPrologueGQ == kPreload
kPrologueGK == kPreload

biasGrad1 == broadcast_1_kEnable /\ p.grad_bias1_ptr # 0
biasGrad2 == broadcast_2_kEnable /\ p.grad_bias2_ptr # 0

Begin_items == <<syncthreads, W("di")>>

MatmulQK_items ==
    <<W("mm_qk_k"), W("mm_qk_q"), R("mm_qk_k"), R("mm_qk_q")>>
    \o Opt(broadcast_1_kEnable \/ broadcast_2_kEnable, <<W("bias"), R("bias")>>)
    \o <<syncthreads>>
    \o Opt(kPrologueGV, <<W("mm_gradV")>>)
    \o Opt(kPrologueDOV, <<W("mm_doivj")>>)
    \o <<W("attn"), syncthreads>>

GradV_items(c, toOutput, lastColumn) ==
    <<syncthreads, W("mm_gradV"), R("attn")>>
    \o Opt(kApplyDropout, <<R("zij")>>)
    \o <<R("mm_gradV"), syncthreads>>
    \o Opt(kPrologueGV /\ ~kSingleIterationGradV /\ c + kN_GradV < p.head_dim_value,
           <<W("mm_gradV")>>)
    \o Opt(toOutput, epilogue("gradV_epilogue"))
    \o Opt(lastColumn, <<syncthreads>>)

\* (a variant that stores the score-gradient tile before the correction has
\* read the attention-weight tile)
MatmulDOIVJ_items_storeFirst ==
    mma("mm_doivj") \o <<syncthreads>>
    \o Opt(kPrologueGQ, <<W("mm_gradQ")>>)
    \o Opt(kPrologueGK, <<W("mm_gradK")>>)
    \o Opt(~kIsTransposedA, <<W("tmpT")>>)
    \o <<W("tmp")>>
    \o <<R("di"), R("attn")>>
    \o Opt(biasGrad1, epilogue("gradB_epilogue"))
    \o Opt(biasGrad2,
           Opt(broadcast_1_kEnable, <<syncthreads>>) \o epilogue("gradB_epilogue"))
    \o <<syncthreads>>
    \o <<syncthreads>>

MatmulDOIVJ_items ==
    mma("mm_doivj") \o <<syncthreads>>
    \o Opt(kPrologueGQ, <<W("mm_gradQ")>>)
    \o Opt(kPrologueGK, <<W("mm_gradK")>>)
    \o <<R("di"), R("attn")>>
    \o Opt(biasGrad1, epilogue("gradB_epilogue"))
    \o Opt(biasGrad2,
           Opt(broadcast_1_kEnable, <<syncthreads>>) \o epilogue("gradB_epilogue"))
    \o <<syncthreads>>
    \o Opt(~kIsTransposedA, <<W("tmpT")>>)
    \o <<W("tmp"), syncthreads>>

GradQ_items(c, toOutput) ==
    LET isLastColumn == kSingleIterationGradQ \/ c + kN_GradQ >= p.head_dim
    IN  <<syncthreads, W("mm_gradQ"), R("tmp"), R("mm_gradQ"), syncthreads>>
        \o Opt(kPrologueGQ /\ ~isLastColumn, <<W("mm_gradQ")>>)
        \o Opt(toOutput,
               epilogue(IF isLastColumn THEN "gradQ_epilogue_lastIter"
                        ELSE "gradQ_epilogue"))

\* (a variant without the early return)
prologueQkNextIteration_noReturn(kForceReloadK, next) ==
    Opt(kForceReloadK, <<W("mm_qk_k")>>) \o <<W("mm_qk_q")>>

\* prologueQkNextIteration<kForceReloadK>(..., next_query, next_key, ...)
prologueQkNextIteration(kForceReloadK, next) ==
    Opt(~(next[1] >= p.num_queries \/ next[2] >= p.num_keys),
        Opt(kForceReloadK, <<W("mm_qk_k")>>) \o <<W("mm_qk_q")>>)

\* the call prologueQkNextIteration<kForceReloadK>(..., next_query, next_key,
\* ...) made after Len(calls) calls of processBlockIJ, with the loads it makes
Prefetch(kForceReloadK, next) ==
    [q |-> next[1], k |-> next[2], kForceReloadK |-> kForceReloadK,
     after |-> Len(calls),
     loads |-> prologueQkNextIteration(kForceReloadK, next)]

\* (a variant whose multiply always takes tmpT as its operand)
GradK_items_tmpT(c, toOutput) ==
    LET isLastColumn == kSingleIterationGradK \/ c + kN_GradK >= p.head_dim
        next == incrIteration(query_start, key_start)
    IN  <<syncthreads, W("mm_gradK"), R("tmpT"), R("mm_gradK"), syncthreads>>
        \o Opt(kPrologueGK /\ ~isLastColumn, <<W("mm_gradK")>>)
        \o Opt(kPrologueQK /\ isLastColumn,
               prologueQkNextIteration(next[2] # key_start, next))
        \o Opt(toOutput,
               epilogue(IF isLastColumn THEN "gradK_epilogue_final"
                        ELSE "gradK_epilogue") \o <<syncthreads>>)

GradK_items(c, toOutput) ==
    LET isLastColumn == kSingleIterationGradK \/ c + kN_GradK >= p.head_dim
        next == incrIteration(query_start, key_start)
    IN  <<syncthreads, W("mm_gradK"),
          R(IF kIsTransposedA THEN "tmp" ELSE "tmpT"), R("mm_gradK"), syncthreads>>
        \o Opt(kPrologueGK /\ ~isLastColumn, <<W("mm_gradK")>>)
        \o Opt(kPrologueQK /\ isLastColumn,
               prologueQkNextIteration(next[2] # key_start, next))
        \o Opt(toOutput,
               epilogue(IF isLastColumn THEN "gradK_epilogue_final"
                        ELSE "gradK_epilogue") \o <<syncthreads>>)

-----------------------------------------------------------------------------
(* The bias tiles and the bias-gradient tiles *)

\* dSij = (dPij - Di) * Pij: element (accum_m, accum_n) of accum after the
\* loop of lines 1486-1500, "dS" where the product is computed and "zero"
\* where accum[idx] = 0 is executed
\* (a variant that tests the query index only)
dSij_at_rowsOnly(accum_m, accum_n) ==
    IF skip \/ accum_m < nqib THEN "dS" ELSE "zero"

dSij_at(accum_m, accum_n) ==
    IF skip \/ (accum_m < nqib /\ accum_n < nkib) THEN "dS" ELSE "zero"

\* the elements of a tile that are "zero", as the rows and the columns that
\* are zero throughout and the zero elements outside them
Zeroed(tile(_, _)) ==
    LET M == 0 .. kBlockSizeI - 1
        N == 0 .. kBlockSizeJ - 1
        rows == { m \in M : \A n \in N : tile(m, n) = "zero" }
        cols == { n \in N : \A m \in M : tile(m, n) = "zero" }
    IN  [rows |-> rows, cols |-> cols,
         other |-> { x \in (M \ rows) \X (N \ cols) : tile(x[1], x[2]) = "zero" }]

NoneZeroed == [rows |-> {}, cols |-> {}, other |-> {}]

\* the score-gradient tile dSij of the iteration, with the number of times
\* it has been multiplied by scale
dSij == [scaled |-> 0, zero |-> Zeroed(dSij_at)]
multiplyByScale(accum) == [accum EXCEPT !.scaled = @ + 1]

\* (a variant that multiplies by scale before the bias-gradient epilogues)
doivj_accum_scaledFirst ==
    [gradB |-> multiplyByScale(dSij), tmp |-> multiplyByScale(dSij)]

\* the accumulator the bias-gradient epilogues store (lines 1504-1545) and
\* the one that goes to tmp / tmpT (after accum = accum * scale)
doivj_accum == [gradB |-> dSij, tmp |-> multiplyByScale(dSij)]

\* advance_to_block: grad_bias1_ptr and grad_bias2_ptr of the block, as
\* element offsets into the two gradient tensors
grad_bias1_ptr == p.batch_id * p.num_queries
grad_bias2_ptr ==
    LET strideB == p.num_heads * p.num_queries * p.num_keys
        strideH == p.num_queries * p.num_keys
    IN  (p.batch_id \div p.N) * strideB + p.head_id * strideH

BiasAccess(op, ptr, layout, accum) ==
    [op |-> op, q |-> query_start, k |-> key_start, rows |-> nqib, cols |-> nkib,
     ptr |-> ptr, layout |-> layout, scaled |-> accum.scaled, zero |-> accum.zero]

\* bias_epilogue(bias_tensor_ref, p.bias1_ptr + key_start,
\*               p.bias2_ptr + query_start * p.num_keys + key_start, ...):
\* the tile pointers, relative to the block's bias1_ptr and bias2_ptr
bias_tile == [scaled |-> 0, zero |-> NoneZeroed]

bias_epilogue ==
    (IF broadcast_1_kEnable
     THEN {BiasAccess("load_bias1", key_start, <<>>, bias_tile)} ELSE {})
    \cup (IF broadcast_2_kEnable
          THEN {BiasAccess("load_bias2", query_start * p.num_keys + key_start,
                           <<>>, bias_tile)}
          ELSE {})

\* the two bias-gradient epilogues: destination pointer, <<row stride,
\* column stride>> of the output tile iterator (AffineRankN<2>({0, 1}) and
\* Params{p.num_keys}) and the accumulator stored
biasGradEpilogues ==
    (IF biasGrad1
     THEN {BiasAccess("store_grad_bias1", grad_bias1_ptr + key_start, <<0, 1>>,
                      doivj_accum.gradB)}
     ELSE {})
    \cup (IF biasGrad2
          THEN {BiasAccess("store_grad_bias2",
                           grad_bias2_ptr + query_start * p.num_keys + key_start,
                           <<p.num_keys, 1>>, doivj_accum.gradB)}
          ELSE {})

-----------------------------------------------------------------------------
(* Initial states: one kernel instantiation, one (batch, head) problem *)

BlockSizes == {32, 64}
SeqLens == {1, 33, 64, MaxSeq}
HeadDims == {8, MaxHeadDim}
ValueDims == {8, 9, MaxHeadDim}

Kernels ==
    { k \in [half : BOOLEAN, arch : {70, 80}, I : BlockSizes, J : BlockSizes,
             maxK : {32, 64}] :
        k.half \/ k.arch = 80 }

Problems(k, lens, keys, dims, vdims) ==
    { q \in [num_queries : lens, num_keys : keys,
             head_dim : dims, head_dim_value : vdims] :
        /\ q.head_dim <= k.maxK
        /\ q.head_dim_value <= k.maxK }

\* the record r with the fields of x added or replaced
Ext(r, x) ==
    [f \in DOMAIN r \cup DOMAIN x |-> IF f \in DOMAIN x THEN x[f] ELSE r[f]]

\* the remaining template arguments: no dropout, no preload, BroadcastNoLoad
\* for both biases
DefaultTemplate ==
    [dropout |-> FALSE, preload |-> FALSE, bias1 |-> FALSE, bias2 |-> FALSE,
     align |-> 8]

\* the remaining fields of Params: one batch, one head, block (0, 0) of the
\* grid, aligned tensors, no bias gradient.  Pointers are addresses in
\* elements (0 is nullptr for the optional ones), dropout_prob is in halves.
DefaultParams ==
    [num_heads |-> 1, num_batches |-> 1, batch_id |-> 0, head_id |-> 0, N |-> 1,
     query_ptr |-> 64, key_ptr |-> 64, value_ptr |-> 64, output_ptr |-> 64,
     grad_output_ptr |-> 64, grad_query_ptr |-> 64, grad_key_ptr |-> 64,
     grad_value_ptr |-> 64, grad_bias1_ptr |-> 0, grad_bias2_ptr |-> 0,
     lse_strideH |-> 64, lse_strideB |-> 64,
     q_strideH |-> 64, k_strideH |-> 64, v_strideH |-> 64,
     q_strideB |-> 64, k_strideB |-> 64, v_strideB |-> 64,
     q_strideM |-> 64, k_strideM |-> 64, v_strideM |-> 64,
     dropout_prob |-> 0]

InitRest ==
    /\ pc = "start"
    /\ dq = 0
    /\ key_start = 0
    /\ query_start = 0
    /\ query_end = 0
    /\ fullKey = TRUE
    /\ site = "none"
    /\ skip = FALSE
    /\ col = 0
    /\ isFirstQuery = FALSE
    /\ isLastQuery = FALSE
    /\ nqib = 0
    /\ nkib = 0
    /\ output_frags = [gradV |-> StaleBag, gradK |-> StaleBag]
    /\ delta = [r \in 0 .. align_up(p.num_queries, kBlockSizeI) - 1 |-> StaleBag]
    /\ di = [t \in 0 .. kBlockSizeI - 1 |-> StaleBag]
    /\ grad_query = Tensor(p.num_queries, kBlockSizeI, p.head_dim, kN_GradQ)
    /\ grad_key = Tensor(p.num_keys, kBlockSizeJ, p.head_dim, kN_GradK)
    /\ grad_value = Tensor(p.num_keys, kBlockSizeJ, p.head_dim_value, kN_GradV)
    /\ workspace_gk = Workspace(workspace_elements_gk)
    /\ workspace_gv = Workspace(workspace_elements_gv)
    /\ workspace_gq = Workspace(workspace_elements_gq)
    /\ syncs = 0
    /\ deltaSync = -1
    /\ calls = <<>>
    /\ writes = <<>>
    /\ supported = <<>>
    /\ smem = <<>>
    /\ ws_log = {}
    /\ bias_log = {}
    /\ prefetch = <<>>
    /\ block = <<>>

InitFrom(kernels, problems(_)) ==
    /\ K \in kernels
    /\ p \in problems(K)
    /\ InitRest

InitWith(kernels, lens, keys, dims, vdims) ==
    InitFrom({ Ext(k, DefaultTemplate) : k \in kernels },
             LAMBDA k : { Ext(q, DefaultParams) :
                            q \in Problems(k, lens, keys, dims, vdims) })

Init == InitWith(Kernels, SeqLens, SeqLens, HeadDims, ValueDims)

-----------------------------------------------------------------------------
(* check_supported (host side, before the launch) *)

\* CHECK_ALIGNED_PTR(PTR, ALIGNMENT): passes when the address is a multiple of
\* the alignment
CHECK_ALIGNED_PTR(ptr, alignment) == ptr % alignment = 0

\* EVOFORMER_CHECK(COND, ERR): a failed check is a launch failure, the
\* function does not go on to its `return true`
EVOFORMER_CHECK(cond) == cond

\* (a variant that leaves out the last check)
check_supported_noValueBound(q) ==
    /\ CHECK_ALIGNED_PTR(q.query_ptr, kMinimumAlignment)
    /\ CHECK_ALIGNED_PTR(q.key_ptr, kMinimumAlignment)
    /\ CHECK_ALIGNED_PTR(q.value_ptr, kMinimumAlignment)
    /\ CHECK_ALIGNED_PTR(q.output_ptr, kMinimumAlignment)
    /\ CHECK_ALIGNED_PTR(q.grad_output_ptr, kMinimumAlignment)
    /\ EVOFORMER_CHECK(q.lse_strideH % 8 = 0)
    /\ EVOFORMER_CHECK(q.lse_strideB % 8 = 0)
    /\ EVOFORMER_CHECK(q.num_heads <= 1 \/ q.q_strideH % kMinimumAlignment = 0)
    /\ EVOFORMER_CHECK(q.num_heads <= 1 \/ q.k_strideH % kMinimumAlignment = 0)
    /\ EVOFORMER_CHECK(q.num_heads <= 1 \/ q.v_strideH % kMinimumAlignment = 0)
    /\ EVOFORMER_CHECK(q.num_batches <= 1 \/ q.q_strideB % kMinimumAlignment = 0)
    /\ EVOFORMER_CHECK(q.num_batches <= 1 \/ q.k_strideB % kMinimumAlignment = 0)
    /\ EVOFORMER_CHECK(q.num_batches <= 1 \/ q.v_strideB % kMinimumAlignment = 0)
    /\ EVOFORMER_CHECK(q.q_strideM % kMinimumAlignment = 0)
    /\ EVOFORMER_CHECK(q.k_strideM % kMinimumAlignment = 0)
    /\ EVOFORMER_CHECK(q.v_strideM % kMinimumAlignment = 0)
    /\ EVOFORMER_CHECK(q.dropout_prob <= 2 /\ q.dropout_prob >= 0)
    /\ EVOFORMER_CHECK(kApplyDropout \/ q.dropout_prob = 0)
    /\ EVOFORMER_CHECK(q.head_dim > 0)
    /\ EVOFORMER_CHECK(q.head_dim_value > 0)
    /\ EVOFORMER_CHECK(q.num_queries > 0)
    /\ EVOFORMER_CHECK(q.num_keys > 0)
    /\ EVOFORMER_CHECK(q.num_heads > 0)
    /\ EVOFORMER_CHECK(q.num_batches > 0)
    /\ EVOFORMER_CHECK(q.head_dim <= kMaxK)

\* the value check_supported(q) returns; dropout_prob is in halves, so that
\* 1.0f is 2
check_supported(q) ==
    /\ CHECK_ALIGNED_PTR(q.query_ptr, kMinimumAlignment)
    /\ CHECK_ALIGNED_PTR(q.key_ptr, kMinimumAlignment)
    /\ CHECK_ALIGNED_PTR(q.value_ptr, kMinimumAlignment)
    /\ CHECK_ALIGNED_PTR(q.output_ptr, kMinimumAlignment)
    /\ CHECK_ALIGNED_PTR(q.grad_output_ptr, kMinimumAlignment)
    /\ EVOFORMER_CHECK(q.lse_strideH % 8 = 0)
    /\ EVOFORMER_CHECK(q.lse_strideB % 8 = 0)
    /\ EVOFORMER_CHECK(q.num_heads <= 1 \/ q.q_strideH % kMinimumAlignment = 0)
    /\ EVOFORMER_CHECK(q.num_heads <= 1 \/ q.k_strideH % kMinimumAlignment = 0)
    /\ EVOFORMER_CHECK(q.num_heads <= 1 \/ q.v_strideH % kMinimumAlignment = 0)
    /\ EVOFORMER_CHECK(q.num_batches <= 1 \/ q.q_strideB % kMinimumAlignment = 0)
    /\ EVOFORMER_CHECK(q.num_batches <= 1 \/ q.k_strideB % kMinimumAlignment = 0)
    /\ EVOFORMER_CHECK(q.num_batches <= 1 \/ q.v_strideB % kMinimumAlignment = 0)
    /\ EVOFORMER_CHECK(q.q_strideM % kMinimumAlignment = 0)
    /\ EVOFORMER_CHECK(q.k_strideM % kMinimumAlignment = 0)
    /\ EVOFORMER_CHECK(q.v_strideM % kMinimumAlignment = 0)
    /\ EVOFORMER_CHECK(q.dropout_prob <= 2 /\ q.dropout_prob >= 0)
    /\ EVOFORMER_CHECK(kApplyDropout \/ q.dropout_prob = 0)
    /\ EVOFORMER_CHECK(q.head_dim > 0)
    /\ EVOFORMER_CHECK(q.head_dim_value > 0)
    /\ EVOFORMER_CHECK(q.num_queries > 0)
    /\ EVOFORMER_CHECK(q.num_keys > 0)
    /\ EVOFORMER_CHECK(q.num_heads > 0)
    /\ EVOFORMER_CHECK(q.num_batches > 0)
    /\ EVOFORMER_CHECK(q.head_dim <= kMaxK)
    /\ EVOFORMER_CHECK(q.head_dim_value <= kMaxK)

\* the host calls check_supported(p) on the parameters it has filled in
CheckSupported ==
    /\ pc = "start"
    /\ supported = <<>>
    /\ supported' = <<check_supported(p)>>
    /\ pc' = "checked"
    /\ UNCHANGED <<cfgVars, logVars, dVars, loopVars, pbVars, output_frags, di,
                   outVars, wsVars, syncs, calls, writes>>

-----------------------------------------------------------------------------
(* attention_kernel: the delta pass *)

Start ==
    /\ pc = "start"
    /\ prefetch' = IF kPrologueQK
                   THEN Append(prefetch, Prefetch(TRUE, <<0, 0>>))
                   ELSE prefetch
    /\ pc' = IF kKernelComputesDelta THEN "delta" ELSE "keyloop"
    /\ UNCHANGED <<cfgVars, supported, smem, ws_log, bias_log, dVars, loopVars, pbVars, output_frags, di, outVars,
                   wsVars, syncs, calls, writes>>

\* (a variant that stops one tile early)
deltaMore_short == dq + kBlockSizeI < p.num_queries

deltaMore == dq < p.num_queries

DeltaStep ==
    /\ pc = "delta"
    /\ deltaMore
    /\ delta' = computeDelta(deltaElements, dq, delta)
    /\ deltaSync' = syncs
    /\ dq' = dq + kBlockSizeI
    /\ UNCHANGED <<cfgVars, supported, logVars, pc, loopVars, pbVars, output_frags, di, outVars,
                   wsVars, syncs, calls, writes>>

DeltaBarrier ==
    /\ pc = "delta"
    /\ ~deltaMore
    /\ syncs' = syncs + 1
    /\ pc' = "keyloop"
    /\ UNCHANGED <<cfgVars, supported, logVars, dVars, loopVars, pbVars, output_frags, di, outVars,
                   wsVars, calls, writes>>

-----------------------------------------------------------------------------
(* attention_kernel: the tile loops *)

\* (a variant that rounds up to whole tiles)
key_end_roundedUp == ceil_div(p.num_keys, kBlockSizeJ) * kBlockSizeJ

key_end == (p.num_keys \div kBlockSizeJ) * kBlockSizeJ

ClearedFrags == [gradV |-> Zero, gradK |-> Zero]

KeyTileFull ==
    /\ pc = "keyloop"
    /\ key_start < key_end
    /\ output_frags' = ClearedFrags
    /\ query_start' = getQueryStart(key_start)
    /\ query_end' = query_start' +
          ((p.num_queries - query_start') \div kBlockSizeI) * kBlockSizeI
    /\ fullKey' = TRUE
    /\ pc' = "qfull"
    /\ UNCHANGED <<cfgVars, supported, logVars, dVars, key_start, pbVars, di, outVars, wsVars,
                   syncs, calls, writes>>

KeyTilePartial ==
    /\ pc = "keyloop"
    /\ ~(key_start < key_end)
    /\ key_start # p.num_keys
    /\ output_frags' = ClearedFrags
    /\ query_start' = getQueryStart(key_start)
    /\ fullKey' = FALSE
    /\ pc' = "qpart"
    /\ UNCHANGED <<cfgVars, supported, logVars, dVars, key_start, query_end, pbVars, di, outVars,
                   wsVars, syncs, calls, writes>>

KernelDone ==
    /\ pc = "keyloop"
    /\ ~(key_start < key_end)
    /\ key_start = p.num_keys
    /\ pc' = "done"
    /\ UNCHANGED <<cfgVars, supported, logVars, dVars, loopVars, pbVars, output_frags, di, outVars,
                   wsVars, syncs, calls, writes>>

\* the call processBlockIJ<skipBoundsChecks>(..., query_start, key_start, ...)
Call(from, skipBoundsChecks) ==
    /\ site' = from
    /\ skip' = skipBoundsChecks
    /\ calls' = Append(calls, [q |-> query_start, k |-> key_start,
                               skip |-> skipBoundsChecks])
    /\ pc' = "pb"
    /\ UNCHANGED <<col, isFirstQuery, isLastQuery, nqib, nkib>>

QueryLoopFull ==
    /\ pc = "qfull"
    /\ IF query_start < query_end
       THEN Call("full", TRUE)
       ELSE pc' = "qtail" /\ UNCHANGED <<pbVars, calls>>
    /\ UNCHANGED <<cfgVars, supported, logVars, dVars, loopVars, output_frags, di, outVars, wsVars,
                   syncs, writes>>

QueryTail ==
    /\ pc = "qtail"
    /\ IF query_start < p.num_queries
       THEN Call("tail", FALSE)
       ELSE pc' = "keyend" /\ UNCHANGED <<pbVars, calls>>
    /\ UNCHANGED <<cfgVars, supported, logVars, dVars, loopVars, output_frags, di, outVars, wsVars,
                   syncs, writes>>

QueryLoopPartial ==
    /\ pc = "qpart"
    /\ IF query_start < p.num_queries
       THEN Call("part", FALSE)
       ELSE pc' = "keyend" /\ UNCHANGED <<pbVars, calls>>
    /\ UNCHANGED <<cfgVars, supported, logVars, dVars, loopVars, output_frags, di, outVars, wsVars,
                   syncs, writes>>

-----------------------------------------------------------------------------
(* processBlockIJ<skipBoundsChecks>(..., query_start, key_start, ...) *)

\* (a variant that misses a last query tile that is a full one)
lastQuery_partialOnly == query_start + kBlockSizeI > p.num_queries

\* bool isLastQuery = next_key != key_start
lastQuery == incrIteration(query_start, key_start)[2] # key_start

\* (a variant that takes every query tile for a full one)
num_queries_in_block_full(skipBoundsChecks) == kBlockSizeI

num_queries_in_block(skipBoundsChecks) ==
    IF skipBoundsChecks THEN kBlockSizeI
    ELSE Min(kBlockSizeI, p.num_queries - query_start)

num_keys_in_block(skipBoundsChecks) ==
    IF skipBoundsChecks THEN kBlockSizeJ
    ELSE Min(kBlockSizeJ, p.num_keys - key_start)

ProcessBlockBegin ==
    /\ pc = "pb"
    /\ isFirstQuery' = (query_start = getQueryStart(key_start))
    /\ isLastQuery' = lastQuery
    /\ syncs' = syncs + Barriers(Begin_items)
    /\ smem' = Events("begin", Begin_items)
    /\ di' = loadDi(query_start)
    /\ nqib' = num_queries_in_block(skip)
    /\ nkib' = num_keys_in_block(skip)
    /\ pc' = "qk"
    /\ UNCHANGED <<cfgVars, supported, prefetch, ws_log, bias_log, dVars, loopVars, site, skip, col, output_frags,
                   outVars, wsVars, calls, writes>>

\* score recomputation: the attention-weight tile goes to shared memory
MatmulQK ==
    /\ pc = "qk"
    /\ syncs' = syncs + Barriers(MatmulQK_items)
    /\ smem' = smem \o Events("qk", MatmulQK_items)
    /\ bias_log' = bias_log \cup bias_epilogue
    /\ col' = 0
    /\ pc' = "gradV"
    /\ UNCHANGED <<cfgVars, supported, prefetch, ws_log, dVars, loopVars, site, skip, isFirstQuery,
                   isLastQuery, nqib, nkib, output_frags, di, outVars, wsVars,
                   calls, writes>>

\* the upper limit of a column loop: for (col = 0; col < (kSingle ? 1 : dim); ...)
colLimit(kSingle, dim) == IF kSingle THEN 1 ELSE dim

\* the rows of the other sequence one multiply of this iteration reduces over
queryRows == Term(query_start, query_start + nqib)
keyRows == Term(key_start, key_start + nkib)

\* (a variant that never reloads the partial sum from the workspace)
loadGradV_noReload(storage_id) ==
    IF ~kOutputInRF THEN Zero ELSE output_frags.gradV

\* accumulator of the GradV multiply before the multiply
loadGradV(storage_id) ==
    IF ~kOutputInRF
    THEN IF isFirstQuery \/ ~kNeedsAccumGradV
         THEN Zero
         ELSE workspace_gv[storage_id]
    ELSE output_frags.gradV

\* (a variant that adds the flushed workspace sum to the destination)
firstGradV_adding == isFirstQuery

\* the `first` argument of accumulateInGmem<MatmulGradV>
firstGradV == isFirstQuery \/ kNeedsAccumGradV

\* one column iteration of the GradV loop
GradV ==
    /\ pc = "gradV"
    /\ col < colLimit(kSingleIterationGradV, p.head_dim_value)
    /\ LET storage_id == col \div kN_GradV
           gradV == loadGradV(storage_id) (+) queryRows
           toWorkspace == ~kOutputInRF /\ kNeedsAccumGradV /\ ~isLastQuery
           toOutput == ~kOutputInRF /\ ~(kNeedsAccumGradV /\ ~isLastQuery)
           first == firstGradV
       IN  /\ output_frags' = [output_frags EXCEPT !.gradV = gradV]
           /\ workspace_gv' = IF toWorkspace
                              THEN [workspace_gv EXCEPT ![storage_id] = gradV]
                              ELSE workspace_gv
           /\ ws_log' = ws_log
                \cup (IF ~kOutputInRF /\ ~(isFirstQuery \/ ~kNeedsAccumGradV)
                      THEN {WsAccess("load", "gv", storage_id)} ELSE {})
                \cup (IF toWorkspace
                      THEN {WsAccess("store", "gv", storage_id)} ELSE {})
           /\ grad_value' = IF toOutput
                            THEN accumulateInGmem(grad_value, key_start, nkib, col,
                                     kN_GradV, p.head_dim_value - col,
                                     p.head_dim_value, gradV, first)
                            ELSE grad_value
           /\ writes' = IF toOutput
                        THEN Append(writes, WriteRec("gV", key_start, nkib,
                                                     storage_id, first))
                        ELSE writes
    /\ LET next == col + kN_GradV
           more == next < colLimit(kSingleIterationGradV, p.head_dim_value)
           items == GradV_items(col,
                        ~kOutputInRF /\ ~(kNeedsAccumGradV /\ ~isLastQuery), ~more)
       IN  /\ syncs' = syncs + Barriers(items)
           /\ smem' = smem \o Events("gradV", items)
           /\ IF more
              THEN col' = next /\ pc' = pc
              ELSE col' = 0 /\ pc' = "doivj"
    /\ UNCHANGED <<cfgVars, supported, prefetch, bias_log, dVars, loopVars, site, skip, isFirstQuery,
                   isLastQuery, nqib, nkib, di, grad_query, grad_key,
                   workspace_gk, workspace_gq, calls>>

\* score gradient: reads di and the attention-weight tile, leaves the
\* score-gradient tile in shared memory
MatmulDOIVJ ==
    /\ pc = "doivj"
    /\ syncs' = syncs + Barriers(MatmulDOIVJ_items)
    /\ smem' = smem \o Events("doivj", MatmulDOIVJ_items)
    /\ bias_log' = bias_log \cup biasGradEpilogues
          \cup {BiasAccess("store_tmp", 0, <<>>, doivj_accum.tmp)}
    /\ col' = 0
    /\ pc' = "gradQ"
    /\ UNCHANGED <<cfgVars, supported, prefetch, ws_log, dVars, loopVars, site, skip, isFirstQuery,
                   isLastQuery, nqib, nkib, output_frags, di, outVars, wsVars,
                   calls, writes>>

\* accumulator of the GradQ multiply before the multiply
loadGradQ(storage_id) ==
    IF key_start = 0 \/ ~kNeedsAccumGradQ
    THEN Zero
    ELSE workspace_gq[storage_id]

\* (a variant that passes query_start to incrIteration)
isLastGradQ_fromQuery ==
    LET next == incrIteration(query_start, key_start)
    IN  next[1] > query_start \/ next[2] >= p.num_keys

\* (a variant with > in place of >=)
isLastGradQ_strict ==
    LET next == incrIteration(p.num_queries, key_start)
    IN  next[1] > query_start \/ next[2] > p.num_keys

\* bool isLast = next_query > query_start || next_key >= p.num_keys
isLastGradQ ==
    LET next == incrIteration(p.num_queries, key_start)
    IN  next[1] > query_start \/ next[2] >= p.num_keys

\* one column iteration of the GradQ loop
GradQ ==
    /\ pc = "gradQ"
    /\ col < colLimit(kSingleIterationGradQ, p.head_dim)
    /\ LET isFirst == key_start = 0
           col_id == col \div kN_GradQ
           num_cols == IF kSingleIterationGradQ THEN 1
                       ELSE ceil_div(p.head_dim, kN_GradQ)
           storage_id == col_id + (query_start \div kBlockSizeI) * num_cols
           accum == loadGradQ(storage_id) (+) keyRows
           isLast == isLastGradQ
           toWorkspace == kNeedsAccumGradQ /\ ~isLast
           first == isFirst \/ kNeedsAccumGradQ
       IN  /\ workspace_gq' = IF toWorkspace
                              THEN [workspace_gq EXCEPT ![storage_id] = accum]
                              ELSE workspace_gq
           /\ ws_log' = ws_log
                \cup (IF ~(isFirst \/ ~kNeedsAccumGradQ)
                      THEN {WsAccess("load", "gq", storage_id)} ELSE {})
                \cup (IF toWorkspace
                      THEN {WsAccess("store", "gq", storage_id)} ELSE {})
           /\ grad_query' = IF ~toWorkspace
                            THEN accumulateInGmem(grad_query, query_start, nqib, col,
                                     kN_GradQ, p.head_dim - col, p.head_dim,
                                     accum, first)
                            ELSE grad_query
           /\ writes' = IF ~toWorkspace
                        THEN Append(writes, WriteRec("gQ", query_start, nqib,
                                                     col_id, first))
                        ELSE writes
    /\ LET next == col + kN_GradQ
       IN  IF next < colLimit(kSingleIterationGradQ, p.head_dim)
           THEN col' = next /\ pc' = pc
           ELSE col' = 0 /\ pc' = "gradK"
    /\ LET items == GradQ_items(col, ~(kNeedsAccumGradQ /\ ~isLastGradQ))
       IN  /\ syncs' = syncs + Barriers(items)
           /\ smem' = smem \o Events("gradQ", items)
    /\ UNCHANGED <<cfgVars, supported, prefetch, bias_log, dVars, loopVars, site, skip, isFirstQuery,
                   isLastQuery, nqib, nkib, output_frags, di, grad_key,
                   grad_value, workspace_gk, workspace_gv, calls>>

\* (a variant that never reloads the partial sum from the workspace)
loadGradK_noReload(storage_id) ==
    IF ~kOutputInRF THEN Zero ELSE output_frags.gradK

\* accumulator of the GradK multiply before the multiply
loadGradK(storage_id) ==
    IF ~kOutputInRF
    THEN IF isFirstQuery \/ ~kNeedsAccumGradK
         THEN Zero
         ELSE workspace_gk[storage_id]
    ELSE output_frags.gradK

\* one column iteration of the GradK loop; after the last one processBlockIJ
\* returns to its call site
GradK ==
    /\ pc = "gradK"
    /\ col < colLimit(kSingleIterationGradK, p.head_dim)
    /\ LET storage_id == col \div kN_GradK
           gradK == loadGradK(storage_id) (+) queryRows
           toWorkspace == ~kOutputInRF /\ kNeedsAccumGradK /\ ~isLastQuery
           toOutput == ~kOutputInRF /\ ~(kNeedsAccumGradK /\ ~isLastQuery)
           first == isFirstQuery \/ kNeedsAccumGradK
       IN  /\ output_frags' = [output_frags EXCEPT !.gradK = gradK]
           /\ workspace_gk' = IF toWorkspace
                              THEN [workspace_gk EXCEPT ![storage_id] = gradK]
                              ELSE workspace_gk
           /\ ws_log' = ws_log
                \cup (IF ~kOutputInRF /\ ~(isFirstQuery \/ ~kNeedsAccumGradK)
                      THEN {WsAccess("load", "gk", storage_id)} ELSE {})
                \cup (IF toWorkspace
                      THEN {WsAccess("store", "gk", storage_id)} ELSE {})
           /\ grad_key' = IF toOutput
                          THEN accumulateInGmem(grad_key, key_start, nkib, col,
                                   kN_GradK, p.head_dim - col, p.head_dim,
                                   gradK, first)
                          ELSE grad_key
           /\ writes' = IF toOutput
                        THEN Append(writes, WriteRec("gK", key_start, nkib,
                                                     storage_id, first))
                        ELSE writes
           /\ syncs' = syncs + Barriers(GradK_items(col, toOutput))
           /\ smem' = smem \o Events("gradK", GradK_items(col, toOutput))
    /\ LET isLastColumn == kSingleIterationGradK \/ col + kN_GradK >= p.head_dim
           next == incrIteration(query_start, key_start)
       IN  prefetch' = IF kPrologueQK /\ isLastColumn
                       THEN Append(prefetch, Prefetch(next[2] # key_start, next))
                       ELSE prefetch
    /\ LET next == col + kN_GradK
       IN  IF next < colLimit(kSingleIterationGradK, p.head_dim)
           THEN col' = next /\ pc' = pc /\ query_start' = query_start
           ELSE /\ col' = 0
                /\ pc' = CASE site = "full" -> "qfull"
                           [] site = "tail" -> "keyend"
                           [] OTHER -> "qpart"
                /\ query_start' = IF site = "tail" THEN query_start
                                  ELSE query_start + kBlockSizeI
    /\ UNCHANGED <<cfgVars, supported, bias_log, dVars, key_start, query_end, fullKey, site, skip,
                   isFirstQuery, isLastQuery, nqib, nkib, di, grad_query,
                   grad_value, workspace_gv, workspace_gq, calls>>

-----------------------------------------------------------------------------
(* attention_kernel: after the query loop of a key tile *)

\* writeFragsToGmem<skipBoundsChecks>: <<grad_value, grad_key>> afterwards
writeFragsToGmem(skipBoundsChecks) ==
    LET nk == num_keys_in_block(skipBoundsChecks)
    IN  << accumulateInGmem(grad_value, key_start, nk, 0, kN_GradV,
                            p.head_dim_value, p.head_dim_value,
                            output_frags.gradV, TRUE),
           accumulateInGmem(grad_key, key_start, nk, 0, kN_GradK,
                            p.head_dim, p.head_dim, output_frags.gradK, TRUE) >>

\* zfillGradKV<skipBoundsChecks>: <<grad_value, grad_key>> afterwards
zfillGradKV(skipBoundsChecks) ==
    << zfill(grad_value, zfillElements(skipBoundsChecks, key_start, p.head_dim_value),
             kN_GradV, p.head_dim_value),
       zfill(grad_key, zfillElements(skipBoundsChecks, key_start, p.head_dim),
             kN_GradK, p.head_dim) >>

KeyEnd ==
    /\ pc = "keyend"
    /\ LET nk == num_keys_in_block(fullKey)
           out == IF kOutputInRF
                  THEN writeFragsToGmem(fullKey)
                  ELSE IF getQueryStart(key_start) >= p.num_queries
                       THEN zfillGradKV(fullKey)
                       ELSE <<grad_value, grad_key>>
       IN  /\ grad_value' = out[1]
           /\ grad_key' = out[2]
           /\ writes' = IF kOutputInRF
                        THEN writes \o << WriteRec("gV", key_start, nk, 0, TRUE),
                                          WriteRec("gK", key_start, nk, 0, TRUE) >>
                        ELSE writes
    /\ IF fullKey
       THEN /\ syncs' = syncs + 1
            /\ key_start' = key_start + kBlockSizeJ
            /\ pc' = "keyloop"
       ELSE /\ syncs' = syncs
            /\ key_start' = key_start
            /\ pc' = "done"
    /\ UNCHANGED <<cfgVars, supported, logVars, dVars, query_start, query_end, fullKey, pbVars,
                   output_frags, di, grad_query, wsVars, calls>>

-----------------------------------------------------------------------------
(* Specifications *)

Next ==
    \/ Start
    \/ DeltaStep
    \/ DeltaBarrier
    \/ KeyTileFull
    \/ KeyTilePartial
    \/ KernelDone
    \/ QueryLoopFull
    \/ QueryTail
    \/ QueryLoopPartial
    \/ ProcessBlockBegin
    \/ MatmulQK
    \/ GradV
    \/ MatmulDOIVJ
    \/ GradQ
    \/ GradK
    \/ KeyEnd

Spec == Init /\ [][Next]_vars

\* The kernel launched with no query rows.  getQueryStart being 0, this is the
\* launch in which a key tile receives no query-tile iteration.
InitEmpty == InitWith(Kernels, {0}, SeqLens, HeadDims, ValueDims)

NextEmpty ==
    \/ Start
    \/ DeltaBarrier
    \/ KeyTileFull
    \/ KeyTilePartial
    \/ KernelDone
    \/ QueryLoopFull
    \/ QueryTail
    \/ QueryLoopPartial
    \/ KeyEnd

SpecEmpty == InitEmpty /\ [][NextEmpty]_vars

\* The delta pass alone, over the 16-bit instantiations: every number of
\* threads per row computeDelta admits (kBlockSizeJ / 32 = 1, 2, 4), feature
\* bounds on the unrolled path and one on the runtime-bounded path (> 256).
DeltaKernels ==
    [half : {TRUE}, arch : {70, 80}, I : BlockSizes, J : {32, 64, 128},
     maxK : {32, 40, 64, 65536}]

DeltaDims == {8, 9, 16, 33, 40, MaxDeltaDim}

InitDelta == InitWith(DeltaKernels, {1, 33, MaxSeq}, {1}, {8}, DeltaDims)

NextDelta ==
    \/ Start
    \/ DeltaStep
    \/ DeltaBarrier

SpecDelta == InitDelta /\ [][NextDelta]_vars

\* The tile loops over launches with and without query rows, so that every
\* templated variant (processBlockIJ, writeFragsToGmem and zfillGradKV, each
\* with and without bounds checks) is called.
InitTiles == InitWith(Kernels, {0, 1, 33, 64}, SeqLens, {8}, {8, 9})

SpecTiles == InitTiles /\ [][Next]_vars

\* The stages of processBlockIJ over the kernels with and without dropout,
\* preload and the two biases (preload only where the static_assert of line
\* 437 admits it), with and without bias-gradient tensors.
StageKernels ==
    { k \in { Ext(b, x) :
                b \in [half : BOOLEAN, arch : {80}, I : {32}, J : BlockSizes,
                       maxK : {32, 64}],
                x \in [dropout : BOOLEAN, preload : BOOLEAN, bias1 : BOOLEAN,
                       bias2 : BOOLEAN, align : {8}] } :
        k.preload => (k.half /\ k.arch >= 80 /\ k.maxK <= k.I) }

InitStages ==
    InitFrom(StageKernels,
             LAMBDA k : { Ext(Ext(q, DefaultParams), g) :
                            q \in Problems(k, {32, 33}, {64, MaxSeq}, {8, MaxHeadDim}, {8}),
                            g \in [grad_bias1_ptr : {0, 1024},
                                   grad_bias2_ptr : {0, 4096}] })

SpecStages == InitStages /\ [][Next]_vars

\* One block of a grid of up to 2 x 2 (batch, head) pairs: every block of
\* every such grid, for the kernels with and without workspace.
GroupKernels ==
    { Ext(k, DefaultTemplate) :
        k \in [half : BOOLEAN, arch : {80}, I : BlockSizes, J : BlockSizes,
               maxK : {32, 64}] }

Grids ==
    { g \in [num_batches : {1, 2}, num_heads : {1, 2},
             batch_id : {0, 1}, head_id : {0, 1}] :
        g.batch_id < g.num_batches /\ g.head_id < g.num_heads }

InitGroups ==
    InitFrom(GroupKernels,
             LAMBDA k : { Ext(Ext(q, DefaultParams), g) :
                            q \in Problems(k, {33}, {33, 64, MaxSeq},
                                           {8, MaxHeadDim}, {8}),
                            g \in Grids })

SpecGroups == InitGroups /\ [][Next]_vars

\* check_supported alone, over parameter sets that differ from a valid one in
\* up to two fields, for every alignment the element types have
CheckKernels ==
    { Ext(k, x) :
        k \in [half : {TRUE}, arch : {80}, I : {64}, J : {64}, maxK : {32, 64}],
        x \in [dropout : BOOLEAN, preload : {FALSE}, bias1 : {FALSE},
               bias2 : {FALSE}, align : {1, 4, 8}] }

ValidParams ==
    Ext([num_queries |-> 33, num_keys |-> 33, head_dim |-> 32,
         head_dim_value |-> 32], DefaultParams)

PointerFields ==
    {"query_ptr", "key_ptr", "value_ptr", "output_ptr", "grad_output_ptr",
     "grad_query_ptr", "grad_key_ptr", "grad_value_ptr"}

StrideFields ==
    {"lse_strideH", "lse_strideB", "q_strideH", "k_strideH", "v_strideH",
     "q_strideB", "k_strideB", "v_strideB", "q_strideM", "k_strideM",
     "v_strideM"}

CountFields ==
    {"head_dim", "head_dim_value", "num_queries", "num_keys", "num_heads",
     "num_batches"}

Deviations ==
    ((PointerFields \cup StrideFields) \X {4})
        \cup (CountFields \X {0})
        \cup ({"num_heads", "num_batches"} \X {2})
        \cup ({"head_dim", "head_dim_value"} \X {MaxHeadDim})
        \cup ({"dropout_prob"} \X {-1, 1, 2, 3})

Deviate(q, d) == [q EXCEPT ![d[1]] = d[2]]

CheckParams ==
    { Deviate(Deviate(ValidParams, d1), d2) : d1 \in Deviations, d2 \in Deviations }

InitCheck == InitFrom(CheckKernels, LAMBDA k : CheckParams)

NextCheck ==
    \/ CheckSupported

SpecCheck == InitCheck /\ [][NextCheck]_vars

------------------------------------------------------------------------------
(* advance_to_block: the offsets derived from the problem sizes *)

\* An integer of the program is the sequence of its bytes, least significant
\* first (two's complement for a signed type), so that a product can be
\* taken at the width of its C++ type.  Int32 is the type of the fields
\* num_heads, num_queries, num_keys and N and of head_id, Int64 that of
\* batch_id and of pointer differences.
kExactBytes == 3 * kInt32Bytes + kInt64Bytes

\* the bytes of n (0 <= n < 2^31) at a width of w bytes
Bytes(n, w) ==
    [i \in 1 .. w |-> IF i > kInt32Bytes THEN 0 ELSE (n \div 256 ^ (i - 1)) % 256]

Int32(n) == Bytes(n, kInt32Bytes)
Int64(n) == Bytes(n, kInt64Bytes)

\* conversion of a signed value to a wider type
SignExtend(a, w) ==
    [i \in 1 .. w |-> IF i <= Len(a) THEN a[i]
                      ELSE IF a[Len(a)] >= 128 THEN 255 ELSE 0]

\* conversion of an unsigned (or non-negative) value to a wider type
ZeroExtend(a, w) == [i \in 1 .. w |-> IF i <= Len(a) THEN a[i] ELSE 0]

RECURSIVE Carry(_, _, _)
Carry(cols, i, c) ==
    IF i > Len(cols) THEN <<>>
    ELSE <<(cols[i] + c) % 256>> \o Carry(cols, i + 1, (cols[i] + c) \div 256)

RECURSIVE Dot(_, _, _, _)
Dot(a, b, k, i) ==
    IF i > k THEN 0 ELSE a[i] * b[k + 1 - i] + Dot(a, b, k, i + 1)

\* a + b and a * b at the width of a and b: the result modulo 2^(8w), which is
\* the two's complement result for signed operands as well
Add(a, b) == Carry([i \in 1 .. Len(a) |-> a[i] + b[i]], 1, 0)
Mul(a, b) == Carry([k \in 1 .. Len(a) |-> Dot(a, b, k, 1)], 1, 0)

\* x * y for two int operands given as the bytes of their values.  The
\* multiplication is an int multiplication; when the product is not
\* representable the behaviour is undefined, and a build either keeps the
\* low 32 bits (`wide` FALSE) or carries the product in a 64-bit register
\* (`wide` TRUE).  The result is converted to int64_t, as its uses are.
IntProduct(x, y, wide) ==
    IF wide
    THEN Mul(SignExtend(x, kInt64Bytes), SignExtend(y, kInt64Bytes))
    ELSE SignExtend(Mul(ZeroExtend(x, kInt32Bytes), ZeroExtend(y, kInt32Bytes)),
                    kInt64Bytes)

\* the low 32 bits of an int product, for its use as an operand of the next
Low(x, wide) == IF wide THEN x ELSE ZeroExtend(SubSeq(x, 1, kInt32Bytes), kInt32Bytes)

\* auto strideB = num_heads * num_queries * num_keys;
\* auto strideH = num_queries * num_keys;
strideB(wide) ==
    IntProduct(Low(IntProduct(Int32(p.num_heads), Int32(p.num_queries), wide), wide),
               Int32(p.num_keys), wide)
strideH(wide) == IntProduct(Int32(p.num_queries), Int32(p.num_keys), wide)

\* b * strideB + head_id * strideH with b of type int64_t
BatchHeadOffset(b, wide) ==
    Add(Mul(Int64(b), strideB(wide)),
        IntProduct(Int32(p.head_id), Low(strideH(wide), wide), wide))

dropout_batch_head_rng_offset(wide) == BatchHeadOffset(p.batch_id, wide)

\* what advance_to_block leaves in the block's Params: the RNG offset, the
\* offsets added to workspace, grad_bias1_ptr and grad_bias2_ptr and the
\* strides given to broadcast_2::advance (<<>> where the pointer is not
\* advanced).  The other pointers advance by strides the host passes.
advance_to_block(wide) ==
    [dropout_batch_head_rng_offset |-> dropout_batch_head_rng_offset(wide),
     workspace |->
        IF kNeedsAccumGradQ \/ kNeedsAccumGradK \/ kNeedsAccumGradV
        THEN workspace_ptr("gk") ELSE 0,
     grad_bias1_ptr |->
        IF broadcast_1_kEnable /\ p.grad_bias1_ptr # 0 THEN grad_bias1_ptr ELSE 0,
     grad_bias2_ptr |->
        IF broadcast_2_kEnable /\ p.grad_bias2_ptr # 0
        THEN BatchHeadOffset(p.batch_id \div p.N, wide) ELSE <<>>,
     bias2_strides |->
        IF broadcast_2_kEnable /\ p.bias2_ptr # 0
        THEN <<strideB(wide), strideH(wide)>> ELSE <<>>]

\* a block of the launch runs advance_to_block; the launch happens only when
\* check_supported has returned true
AdvanceToBlock ==
    /\ pc = "checked"
    /\ supported = <<TRUE>>
    /\ block = <<>>
    /\ \E wide \in BOOLEAN : block' = <<advance_to_block(wide)>>
    /\ UNCHANGED <<K, p, pc, supported, logVars, dVars, loopVars, pbVars,
                   output_frags, di, outVars, wsVars, syncs, calls, writes>>

\* Launches of the sizes at which the products leave 32 bits (8 * 16384 *
\* 16384 = 2^31, 46341 * 46341 > 2^31) and of small ones, with and without
\* the pairwise bias and its gradient, every block of a grid of up to
\* 4 x 8; and parameter sets check_supported refuses.
OffsetKernels ==
    { Ext(k, x) :
        k \in [half : {TRUE}, arch : {80}, I : {64}, J : {64}, maxK : {32}],
        x \in [dropout : BOOLEAN, preload : {FALSE}, bias1 : {FALSE},
               bias2 : BOOLEAN, align : {8}] }

LongSeqs == {33, 16384, MaxLongSeq}

OffsetParams ==
    { Ext(Ext(ValidParams, [bias2_ptr |-> 64]), g) :
        g \in { g \in [num_heads : {0, 1, 8}, num_queries : LongSeqs,
                       num_keys : LongSeqs, num_batches : {1, 4}, N : {1, 2},
                       batch_id : {0, 3}, head_id : {0, 7},
                       grad_bias2_ptr : {0, 64}] :
                  /\ g.batch_id < g.num_batches
                  /\ g.head_id = 0 \/ g.head_id < g.num_heads
                  /\ g.num_batches % g.N = 0 } }

InitOffsets ==
    /\ K \in OffsetKernels
    /\ p \in OffsetParams
    /\ block = <<>>
    /\ pc = "start"
    /\ dq = 0
    /\ key_start = 0
    /\ query_start = 0
    /\ query_end = 0
    /\ fullKey = TRUE
    /\ site = "none"
    /\ skip = FALSE
    /\ col = 0
    /\ isFirstQuery = FALSE
    /\ isLastQuery = FALSE
    /\ nqib = 0
    /\ nkib = 0
    /\ output_frags = [gradV |-> StaleBag, gradK |-> StaleBag]
    /\ delta = <<>>
    /\ di = <<>>
    /\ grad_query = <<>>
    /\ grad_key = <<>>
    /\ grad_value = <<>>
    /\ workspace_gk = <<>>
    /\ workspace_gv = <<>>
    /\ workspace_gq = <<>>
    /\ syncs = 0
    /\ deltaSync = -1
    /\ calls = <<>>
    /\ writes = <<>>
    /\ supported = <<>>
    /\ smem = <<>>
    /\ ws_log = {}
    /\ bias_log = {}
    /\ prefetch = <<>>

NextOffsets ==
    \/ CheckSupported
    \/ AdvanceToBlock

SpecOffsets == InitOffsets /\ [][NextOffsets]_vars

TypeOK == pc \in {"checked", "start", "delta", "keyloop", "qfull", "qtail", "qpart", "pb",
                  "qk", "gradV", "doivj", "gradQ", "gradK", "keyend", "done"}

-----------------------------------------------------------------------------
(* What the claims are stated over *)

done == pc = "done"

QueryTiles == { q \in 0 .. p.num_queries - 1 : q % kBlockSizeI = 0 }
KeyTiles == { k \in 0 .. p.num_keys - 1 : k % kBlockSizeJ = 0 }

numQueryTiles == ceil_div(p.num_queries, kBlockSizeI)
numKeyTiles == ceil_div(p.num_keys, kBlockSizeJ)

\* the product of one iteration, as the term it adds to a cell
QueryTileTerm(q) == <<q, Min(q + kBlockSizeI, p.num_queries)>>
KeyTileTerm(k) == <<k, Min(k + kBlockSizeJ, p.num_keys)>>

\* the sum of the products of all query (key) tiles, each taken once
SumOverQueryTiles == SetToBag({ QueryTileTerm(q) : q \in QueryTiles })
SumOverKeyTiles == SetToBag({ KeyTileTerm(k) : k \in KeyTiles })

KeyRows == 0 .. p.num_keys - 1
QueryRows == 0 .. p.num_queries - 1

ragged == p.num_queries % kBlockSizeI # 0 /\ p.num_keys % kBlockSizeJ # 0

-----------------------------------------------------------------------------
(* C1 *)

\* the i-th call of the key-major schedule
ScheduledCall(i) ==
    [k |-> ((i - 1) \div numQueryTiles) * kBlockSizeJ,
     q |-> ((i - 1) % numQueryTiles) * kBlockSizeI]

CallsFollowSchedule ==
    /\ Len(calls) <= numKeyTiles * numQueryTiles
    /\ \A i \in 1 .. Len(calls) :
          /\ calls[i].k = ScheduledCall(i).k
          /\ calls[i].q = ScheduledCall(i).q

\* The number of steps attention_kernel still has to take.  It is what makes
\* termination a property of finite runs: it is a natural number, every step
\* lowers it by one, and it is zero exactly when the kernel has returned.
Chunks(kSingle, dim, kN) == IF kSingle THEN 1 ELSE ceil_div(dim, kN)
chunksV == Chunks(kSingleIterationGradV, p.head_dim_value, kN_GradV)
chunksQ == Chunks(kSingleIterationGradQ, p.head_dim, kN_GradQ)
chunksK == Chunks(kSingleIterationGradK, p.head_dim, kN_GradK)
callSteps == 3 + chunksV + chunksQ + chunksK
TilesFrom(from, n, tile) == IF from >= n THEN 0 ELSE ceil_div(n - from, tile)

qtailLeft(qs) == 1 + (IF qs < p.num_queries THEN callSteps ELSE 0) + 1
qfullLeft(qs, qe) ==
    (IF qs < qe THEN ((qe - qs) \div kBlockSizeI) * (1 + callSteps) ELSE 0)
    + 1 + qtailLeft(IF qs < qe THEN qe ELSE qs)
qpartLeft(qs) == TilesFrom(qs, p.num_queries, kBlockSizeI) * (1 + callSteps) + 1 + 1
keyloopLeft(ks) ==
    LET full == IF ks < key_end THEN (key_end - ks) \div kBlockSizeJ ELSE 0
        qe == (p.num_queries \div kBlockSizeI) * kBlockSizeI
        at == IF ks < key_end THEN key_end ELSE ks
    IN  full * (1 + qfullLeft(0, qe))
        + (IF at # p.num_keys THEN 1 + qpartLeft(0) ELSE 1)
inCallLeft ==
    CASE pc = "pb" -> callSteps
      [] pc = "qk" -> callSteps - 1
      [] pc = "gradV" -> (chunksV - col \div kN_GradV) + 1 + chunksQ + chunksK
      [] pc = "doivj" -> 1 + chunksQ + chunksK
      [] pc = "gradQ" -> (chunksQ - col \div kN_GradQ) + chunksK
      [] pc = "gradK" -> chunksK - col \div kN_GradK
tileLeft ==
    CASE pc = "qfull" -> qfullLeft(query_start, query_end)
      [] pc = "qtail" -> qtailLeft(query_start)
      [] pc = "qpart" -> qpartLeft(query_start)
      [] pc = "keyend" -> 1
      [] OTHER ->
           inCallLeft +
           (CASE site = "full" -> qfullLeft(query_start + kBlockSizeI, query_end)
              [] site = "tail" -> 1
              [] OTHER -> qpartLeft(query_start + kBlockSizeI))
StepsLeft ==
    CASE pc = "done" -> 0
      [] pc = "start" ->
           1 + (IF kKernelComputesDelta THEN numQueryTiles + 1 ELSE 0) + keyloopLeft(0)
      [] pc = "delta" -> TilesFrom(dq, p.num_queries, kBlockSizeI) + 1 + keyloopLeft(0)
      [] pc = "keyloop" -> keyloopLeft(key_start)
      [] OTHER -> tileLeft + (IF fullKey THEN keyloopLeft(key_start + kBlockSizeJ) ELSE 0)

\* C1: attention_kernel calls processBlockIJ for the pairs (key_start,
\* query_start) of the tile grid and for no other pair, in key-major order
\* with the query tiles of one key tile ascending, each pair once, and it
\* terminates (every step takes it one step closer to its return) after
\* exactly ceil(num_keys/J) * ceil(num_queries/I) calls.
C1_Schedule ==
    /\ [] CallsFollowSchedule
    /\ [] (done => Len(calls) = numKeyTiles * numQueryTiles)
    /\ [] (StepsLeft >= 0 /\ (StepsLeft = 0 <=> done))
    /\ [][StepsLeft' = StepsLeft - 1]_vars

C1_Witness ==
    /\ done
    /\ ragged
    /\ numKeyTiles = 3
    /\ numQueryTiles = 3
    /\ Len(calls) = 9

-----------------------------------------------------------------------------
(* C2, C3, C4 *)

\* C2: at termination every valid GradKey row holds, in every column chunk,
\* the sum of the GradK products of all query tiles, each query tile once,
\* whichever of the three accumulation paths the kernel uses.
C2_GradKeySum ==
    done =>
        \A r \in KeyRows : \A c \in DOMAIN grad_key[r] :
            grad_key[r][c] = SumOverQueryTiles

C2_Witness ==
    /\ done
    /\ kNeedsAccumGradK
    /\ numQueryTiles = 3
    /\ p.head_dim > kN_GradK
    /\ \A r \in KeyRows : grad_key[r][1] = SumOverQueryTiles

\* C3: at termination every valid GradValue row holds, in every column chunk
\* of width kBlockSizeI, the sum of the GradV products of all query tiles,
\* each query tile once, whichever accumulation path the kernel uses.
C3_GradValueSum ==
    done =>
        \A r \in KeyRows : \A c \in DOMAIN grad_value[r] :
            grad_value[r][c] = SumOverQueryTiles

C3_Witness ==
    /\ done
    /\ ~kOutputInRF
    /\ p.head_dim_value > kBlockSizeI
    /\ numQueryTiles >= 2
    /\ \A r \in KeyRows : grad_value[r][1] = SumOverQueryTiles

\* C4: at termination every valid GradQuery row holds, in every column chunk,
\* the sum of the GradQ products of all key tiles, each key tile once, both
\* when the partial sums go through the workspace and when they are added
\* directly into the output tensor.
C4_GradQuerySum ==
    done =>
        \A r \in QueryRows : \A c \in DOMAIN grad_query[r] :
            grad_query[r][c] = SumOverKeyTiles

C4_Witness ==
    /\ done
    /\ kNeedsAccumGradQ
    /\ numKeyTiles = 3
    /\ p.head_dim > kN_GradQ
    /\ \A r \in QueryRows : grad_query[r][1] = SumOverKeyTiles

-----------------------------------------------------------------------------
(* C5 *)

\* the key tiles that receive no query-tile iteration
EmptyKeyTiles == { k \in KeyTiles : getQueryStart(k) >= p.num_queries }

RowsOfKeyTile(k) == k .. k + kBlockSizeJ - 1

\* C5: when attention_kernel has returned, every key tile that received no
\* query-tile iteration has, in each of its rows below num_keys, every GradKey
\* and GradValue cell equal to zero whatever memory held before (register
\* path and zfillGradKV path alike), and its rows at or beyond num_keys still
\* hold what memory held before.
C5_EmptyTilesZero ==
    done =>
        \A k \in EmptyKeyTiles : \A r \in RowsOfKeyTile(k) :
            /\ \A c \in DOMAIN grad_key[r] :
                  grad_key[r][c] = IF r < p.num_keys THEN Zero ELSE StaleBag
            /\ \A c \in DOMAIN grad_value[r] :
                  grad_value[r][c] = IF r < p.num_keys THEN Zero ELSE StaleBag

C5_Witness ==
    /\ done
    /\ ~kOutputInRF
    /\ p.num_keys = MaxSeq
    /\ kBlockSizeJ = 32
    /\ EmptyKeyTiles = KeyTiles
    /\ p.head_dim_value > kN_GradV
    /\ \A r \in KeyRows : grad_value[r][1] = Zero /\ grad_key[r][0] = Zero
    /\ grad_key[p.num_keys][0] = StaleBag

-----------------------------------------------------------------------------
(* C6 *)

\* the calls made for the key tile (query tile) a row lies in
CallsOfKeyRow(r) ==
    { i \in 1 .. Len(calls) : calls[i].k = (r \div kBlockSizeJ) * kBlockSizeJ }
CallsOfQueryRow(r) ==
    { i \in 1 .. Len(calls) : calls[i].q = (r \div kBlockSizeI) * kBlockSizeI }

\* the contribution of the i-th call to a key-side (query-side) cell
QueryTermOf(i) == QueryTileTerm(calls[i].q)
KeyTermOf(i) == KeyTileTerm(calls[i].k)

\* the multiset of the contributions of the calls in I
Contributions(I, TermOf(_)) ==
    [t \in { TermOf(i) : i \in I } |-> Cardinality({ i \in I : TermOf(i) = t })]

\* a tensor determined by the problem, the tile sizes and the call schedule
\* alone: its valid rows hold the contributions of the calls of their tile
FromCalls(mem, rows, CallsOf(_), TermOf(_)) ==
    [r \in DOMAIN mem |->
        [c \in DOMAIN mem[r] |->
            IF r < rows THEN Contributions(CallsOf(r), TermOf) ELSE StaleBag]]

\* C6: for one problem and one pair of tile sizes the final GradQuery, GradKey
\* and GradValue are the same tensors in every accumulation mode: the calls
\* are those of the schedule, and every cell holds the multiset of the
\* contributions of the calls of its tile, which no mode flag enters.
C6_ModeEquivalence ==
    done =>
        /\ Len(calls) = numKeyTiles * numQueryTiles
        /\ \A i \in 1 .. Len(calls) :
              calls[i].k = ScheduledCall(i).k /\ calls[i].q = ScheduledCall(i).q
        /\ grad_key = FromCalls(grad_key, p.num_keys, CallsOfKeyRow, QueryTermOf)
        /\ grad_value = FromCalls(grad_value, p.num_keys, CallsOfKeyRow, QueryTermOf)
        /\ grad_query = FromCalls(grad_query, p.num_queries, CallsOfQueryRow, KeyTermOf)

C6_Witness ==
    /\ done
    /\ kNeedsAccumGradV
    /\ kNeedsAccumGradQ
    /\ numQueryTiles = 2
    /\ numKeyTiles = 2
    /\ Cardinality(CallsOfKeyRow(kBlockSizeJ)) = 2
    /\ BagCardinality(grad_value[kBlockSizeJ][0]) = 2
    /\ BagCardinality(grad_query[kBlockSizeI][0]) = 2

-----------------------------------------------------------------------------
(* C7 *)

\* a tensor in which every cell of a valid row sums the rows 0 .. n-1 of the
\* other sequence, each once, and no other row
AllRowsOnce(mem, rows, n) ==
    \A r \in DOMAIN mem : \A c \in DOMAIN mem[r] :
        Merge(mem[r][c]) = IF r < rows THEN Term(0, n) ELSE StaleBag

\* C7: whatever the tile sizes, each valid row of GradKey and GradValue sums
\* the contributions of the query rows 0 .. num_queries-1, each once, each
\* valid row of GradQuery those of the key rows 0 .. num_keys-1, each once,
\* and no row at or beyond the sequence length contributes or is written.
C7_TilingInvariance ==
    done =>
        /\ AllRowsOnce(grad_key, p.num_keys, p.num_queries)
        /\ AllRowsOnce(grad_value, p.num_keys, p.num_queries)
        /\ AllRowsOnce(grad_query, p.num_queries, p.num_keys)

C7_Witness ==
    /\ done
    /\ ragged
    /\ kBlockSizeI # kBlockSizeJ
    /\ p.num_queries = MaxSeq
    /\ p.num_keys = 33
    /\ BagCardinality(grad_key[32][0]) = numQueryTiles
    /\ Merge(grad_key[32][0]) = Term(0, MaxSeq)
    /\ Merge(grad_query[MaxSeq - 1][0]) = Term(0, 33)

-----------------------------------------------------------------------------
(* C8 *)

\* the output tiles: <<tensor, first row, column chunk>>
OutputTiles ==
    { <<"gK", k, c>> : k \in KeyTiles, c \in DOMAIN grad_key[0] }
    \cup { <<"gV", k, c>> : k \in KeyTiles, c \in DOMAIN grad_value[0] }
    \cup { <<"gQ", q, c>> : q \in QueryTiles, c \in DOMAIN grad_query[0] }

\* the writes to an output tile, and the calls of the iterations touching it
WritesTo(T) ==
    { j \in 1 .. Len(writes) :
        writes[j].t = T[1] /\ writes[j].row0 = T[2] /\ writes[j].c = T[3] }
Touching(T) ==
    IF T[1] = "gQ" THEN CallsOfQueryRow(T[2]) ELSE CallsOfKeyRow(T[2])
Last(I) == CHOOSE i \in I : \A j \in I : j <= i
First(I) == CHOOSE i \in I : \A j \in I : i <= j

\* (the claim as stated) every output tile is written exactly once, at the
\* last iteration that touches it
C8_WrittenOnceAtLast ==
    done =>
        \A T \in OutputTiles :
            /\ Cardinality(WritesTo(T)) = 1
            /\ \A j \in WritesTo(T) : writes[j].call = Last(Touching(T))

\* C8: with a 16-bit scalar type every output tile is written exactly once,
\* by an overwriting store at the last iteration that touches it; with float
\* it is written at every iteration that touches it, the first of them
\* overwriting and the later ones adding.
C8_WritePolicy ==
    done =>
        \A T \in OutputTiles :
            IF kIsHalf
            THEN /\ Cardinality(WritesTo(T)) = 1
                 /\ \A j \in WritesTo(T) :
                       writes[j].call = Last(Touching(T)) /\ writes[j].first
            ELSE /\ Cardinality(WritesTo(T)) = Cardinality(Touching(T))
                 /\ { writes[j].call : j \in WritesTo(T) } = Touching(T)
                 /\ \A j \in WritesTo(T) :
                       writes[j].first <=> writes[j].call = First(Touching(T))

C8_Witness ==
    /\ done
    /\ ~kIsHalf
    /\ numQueryTiles = 3
    /\ numKeyTiles = 2
    /\ Cardinality(WritesTo(<<"gK", 0, 0>>)) = 3
    /\ Cardinality(WritesTo(<<"gQ", 0, 0>>)) = 2

-----------------------------------------------------------------------------
(* C9 *)

deltaPassed == pc = "keyloop" /\ kKernelComputesDelta

\* C9: in every configuration that computes delta in the kernel, after the
\* computeDelta loops and their barrier every delta[r] with r < num_queries is
\* the sum over the columns 0 .. head_dim_value-1, each column once, and no
\* entry at or beyond num_queries has been written.
C9_DeltaSum ==
    deltaPassed =>
        \A r \in DOMAIN delta :
            delta[r] = IF r < p.num_queries THEN Term(0, p.head_dim_value)
                       ELSE StaleBag

-----------------------------------------------------------------------------
(* C10 *)

\* (the claim as stated) in every configuration, when processBlockIJ is
\* entered delta has been written for every query row and a barrier has
\* executed since
C10_DeltaReady ==
    pc = "pb" =>
        /\ \A r \in QueryRows : delta[r] # StaleBag
        /\ deltaSync >= 0
        /\ deltaSync < syncs

\* C10: in the configurations that compute delta in the kernel
\* (kKernelComputesDelta), when processBlockIJ is entered, before its loadDi,
\* delta has been written for every query row and a block-wide barrier has
\* executed since the last of these writes; in the other configurations the
\* kernel never writes delta.
C10_DeltaReadyWhenComputed ==
    pc = "pb" =>
        IF kKernelComputesDelta
        THEN /\ \A r \in QueryRows : delta[r] # StaleBag
             /\ deltaSync >= 0
             /\ deltaSync < syncs
        ELSE /\ \A r \in DOMAIN delta : delta[r] = StaleBag
             /\ deltaSync = -1

C10_Witness ==
    /\ pc = "pb"
    /\ kKernelComputesDelta
    /\ numQueryTiles = 3
    /\ Len(calls) = 1
    /\ deltaSync + 1 = syncs
    /\ \A r \in QueryRows : delta[r] = Term(0, p.head_dim_value)

-----------------------------------------------------------------------------
(* C11, C12: check_supported *)

checkReturns == supported = <<>> /\ supported' # <<>>

\* C11: check_supported returns true only for parameter sets in which
\* head_dim, head_dim_value, num_queries, num_keys, num_heads and num_batches
\* are all positive, head_dim and head_dim_value are at most kMaxK,
\* dropout_prob lies in [0, 1] and dropout_prob is 0 when kApplyDropout is
\* false; and the call leaves the parameters as they were.
C11_SupportedOnlyIfValid ==
    [][checkReturns =>
          /\ p' = p
          /\ supported'[1] =>
                /\ p.head_dim > 0 /\ p.head_dim_value > 0
                /\ p.num_queries > 0 /\ p.num_keys > 0
                /\ p.num_heads > 0 /\ p.num_batches > 0
                /\ p.head_dim <= kMaxK /\ p.head_dim_value <= kMaxK
                /\ 0 <= p.dropout_prob /\ p.dropout_prob <= 2
                /\ (~kApplyDropout => p.dropout_prob = 0)]_vars

\* a dropout kernel accepted with dropout_prob = 1.0 and head_dim at the bound
C11_Witness ==
    /\ supported = <<TRUE>>
    /\ kApplyDropout /\ p.dropout_prob = 2
    /\ p.head_dim = kMaxK

aligned(ptr) == ptr % kMinimumAlignment = 0

\* C12: check_supported rejects every parameter set in which one of the
\* eight tensor pointers (query, key, value, output, grad_output and the
\* GradQuery, GradKey, GradValue outputs) is not a multiple of
\* kMinimumAlignment, and every one in which a head (batch) stride of query,
\* key or value is not aligned while there is more than one head (batch).
C12_RejectsMisaligned ==
    supported = <<TRUE>> =>
        /\ \A f \in PointerFields : aligned(p[f])
        /\ p.num_heads > 1 =>
              aligned(p.q_strideH) /\ aligned(p.k_strideH) /\ aligned(p.v_strideH)
        /\ p.num_batches > 1 =>
              aligned(p.q_strideB) /\ aligned(p.k_strideB) /\ aligned(p.v_strideB)

-----------------------------------------------------------------------------
(* C13, C14: the workspace *)

\* the blocks of the grid, numbered batch_id * num_heads + head_id
Groups == 0 .. p.num_batches * p.num_heads - 1
group == p.batch_id * p.num_heads + p.head_id

\* the elements [first, last + 1) of a group's slice of the workspace
SliceOf(g) == <<g * workspace_strideBH, (g + 1) * workspace_strideBH>>

\* the elements [first, last + 1) the size formula reserves for each
\* accumulator inside the slice of this group
PlaneOf(plane) ==
    LET base == SliceOf(group)[1]
        gk == workspace_elements_gk
        gv == workspace_elements_gv
        gq == workspace_elements_gq
    IN  CASE plane = "gk" -> <<base, base + gk>>
          [] plane = "gv" -> <<base + gk, base + gk + gv>>
          [] plane = "gq" -> <<base + gk + gv, base + gk + gv + gq>>

Inside(r, interval) == interval[1] <= r[1] /\ r[2] < interval[2]
Apart(r, interval) == r[2] < interval[1] \/ interval[2] <= r[1]

\* C13: every workspace element the block of group (b, h) loads or stores
\* lies in the slice [(b*num_heads + h) * workspace_strideBH,
\* (b*num_heads + h + 1) * workspace_strideBH), inside the part of the slice
\* reserved for the accumulator it belongs to (GradKey, GradValue, GradQuery,
\* in this order, not overlapping), in no other group's slice, and within
\* the workspace_size() bytes of the buffer.
C13_WorkspacePartition ==
    \A a \in ws_log :
        LET r == GmemTileRange(a.ptr)
        IN  /\ Inside(r, SliceOf(group))
            /\ Inside(r, PlaneOf(a.plane))
            /\ \A b \in {"gk", "gv", "gq"} \ {a.plane} : Apart(r, PlaneOf(b))
            /\ \A g \in Groups \ {group} : Apart(r, SliceOf(g))
            /\ r[1] >= 0
            /\ (r[2] + 1) * kFloatBytes <= workspace_size

\* the block of the last group of a 2 x 2 grid has finished after loading and
\* storing partial sums of all three accumulators
C13_Witness ==
    /\ pc = "done"
    /\ p.batch_id = 1 /\ p.head_id = 1
    /\ \A plane \in {"gk", "gv", "gq"} :
          \A op \in {"load", "store"} :
             \E a \in ws_log : a.plane = plane /\ a.op = op

\* C14: an accumulator for which the size formula reserves no workspace
\* (GradKey / GradValue when kNeedsAccumGradK / kNeedsAccumGradV is false,
\* GradQuery when kNeedsAccumGradQ is false or num_keys <= kBlockSizeJ) is
\* never loaded from or stored to the workspace, and a kernel in which no
\* accumulator needs workspace makes no workspace access at all.
C14_NoAccessWithoutReservation ==
    /\ \A a \in ws_log :
          /\ a.plane = "gk" => kNeedsAccumGradK
          /\ a.plane = "gv" => kNeedsAccumGradV
          /\ a.plane = "gq" => kNeedsAccumGradQ /\ p.num_keys > kBlockSizeJ
    /\ ~(kNeedsAccumGradQ \/ kNeedsAccumGradK \/ kNeedsAccumGradV) => ws_log = {}

\* a kernel that spills GradKey and GradValue has finished a single key tile
\* of several query tiles: GradQuery needs an accumulator, none is reserved,
\* and only the other two were spilled
C14_Witness ==
    /\ pc = "done"
    /\ kNeedsAccumGradQ /\ p.num_keys <= kBlockSizeJ /\ workspace_elements_gq = 0
    /\ Len(calls) >= 2
    /\ \E a \in ws_log : a.plane = "gk"
    /\ \E a \in ws_log : a.plane = "gv"
    /\ ~ \E a \in ws_log : a.plane = "gq"

-----------------------------------------------------------------------------
(* C15: tile extents and the variants without bounds checks *)

inStage == pc \in {"qk", "gradV", "doivj", "gradQ", "gradK"}

TileInside(q, k) == q + kBlockSizeI <= p.num_queries /\ k + kBlockSizeJ <= p.num_keys

\* C15: in every processBlockIJ call num_queries_in_block is
\* min(kBlockSizeI, num_queries - query_start) and num_keys_in_block is
\* min(kBlockSizeJ, num_keys - key_start), both at least 1; and the variants
\* without bounds checks (processBlockIJ<true>, writeFragsToGmem<true>,
\* zfillGradKV<true>) run only for tiles that lie entirely inside the
\* sequences.
C15_TileExtents ==
    /\ inStage =>
          /\ nqib = Min(kBlockSizeI, p.num_queries - query_start)
          /\ nkib = Min(kBlockSizeJ, p.num_keys - key_start)
          /\ nqib >= 1 /\ nkib >= 1
    /\ \A i \in 1 .. Len(calls) : calls[i].skip => TileInside(calls[i].q, calls[i].k)
    /\ (pc = "keyend" /\ fullKey) => key_start + kBlockSizeJ <= p.num_keys

\* a register-mode kernel has finished a launch ragged in both directions:
\* processBlockIJ ran with and without bounds checks and writeFragsToGmem<true>
\* flushed the full key tiles
C15_Witness ==
    /\ pc = "done"
    /\ kOutputInRF /\ ragged
    /\ p.num_keys > kBlockSizeJ /\ p.num_queries > kBlockSizeI
    /\ \E i \in 1 .. Len(calls) : calls[i].skip
    /\ \E i \in 1 .. Len(calls) : ~calls[i].skip

\* zfillGradKV<true> has run on a full key tile
C15_ZfillReached ==
    /\ pc = "keyloop" /\ key_start >= kBlockSizeJ
    /\ ~kOutputInRF /\ p.num_queries = 0

-----------------------------------------------------------------------------
(* C16 .. C20: the stages of one iteration *)

StageNames == <<"begin", "qk", "gradV", "doivj", "gradQ", "gradK">>
StageIndex(stage) == CHOOSE i \in DOMAIN StageNames : StageNames[i] = stage

IsWrite(e, buf) == e.buf = buf /\ e.op = "w"
IsRead(e, buf) == e.buf = buf /\ e.op = "r"

\* C16: with kApplyDropout, in every iteration the dropout-mask tile (zij) is
\* written before the value-gradient multiply reads it: no read of zij
\* without an earlier write of zij in the same iteration.
C16_MaskWrittenBeforeRead ==
    \A k \in DOMAIN smem :
        IsRead(smem[k], "zij") => \E i \in 1 .. k - 1 : IsWrite(smem[i], "zij")

BiasA == {"load_bias1", "store_grad_bias1"}

\* C17: the first bias (Broadcast1) and its gradient are keyed by query and
\* broadcast across keys: the place of the bias element added to the score of
\* tile element (q, k), and the place its gradient goes to, change with the
\* query index and do not change with the key index.
C17_Bias1KeyedByQuery ==
    \A e \in bias_log :
        e.op \in BiasA =>
            /\ \A f \in bias_log :
                  f.op = e.op => (f.q = e.q <=> f.ptr = e.ptr)
            /\ e.op = "store_grad_bias1" => (e.layout[1] # 0 /\ e.layout[2] = 0)

callReturned == ~inStage /\ pc # "pb" /\ smem # <<>>

\* C18: the stages of an iteration run in the order score recomputation,
\* value gradient, score gradient, query gradient, key gradient, and between
\* the store of the attention-weight tile and the read of it by the score
\* gradient stage nothing is written to the tile or to a buffer that shares
\* its memory in the shared-storage union.
C18_StageOrderTileIntact ==
    /\ \A i \in DOMAIN smem : \A j \in DOMAIN smem :
          i < j => StageIndex(smem[i].stage) <= StageIndex(smem[j].stage)
    /\ callReturned =>
          { smem[i].stage : i \in DOMAIN smem } = { StageNames[i] : i \in DOMAIN StageNames }
    /\ \A i \in DOMAIN smem : \A k \in DOMAIN smem :
          (i < k /\ IsWrite(smem[i], "attn")
                 /\ IsRead(smem[k], "attn") /\ smem[k].stage = "doivj") =>
              \A j \in i + 1 .. k - 1 :
                  smem[j].op = "w" =>
                      smem[j].buf # "attn" /\ ~AliasesAttn(smem[j].buf)

\* an iteration has returned in a kernel without preload that emits both bias
\* gradients: their staging buffer shares the memory of the tile and was
\* written after the score gradient stage had read the tile
C18_Witness ==
    /\ callReturned
    /\ ~kPreload /\ biasGrad1 /\ biasGrad2
    /\ AliasesAttn("gradB_epilogue")
    /\ \E i \in DOMAIN smem : \E k \in DOMAIN smem :
          /\ i < k
          /\ IsRead(smem[i], "attn") /\ smem[i].stage = "doivj"
          /\ IsWrite(smem[k], "gradB_epilogue")

StagedBuffers == {"di", "attn", "tmp", "tmpT"}

\* C19: for each of the buffers written by one stage and read by a later one
\* (di, the attention-weight tile, the score-gradient tiles tmp and tmpT) at
\* least one block-wide barrier is executed between the write and every such
\* read.
C19_BarrierBetweenStages ==
    \A i \in DOMAIN smem : \A k \in DOMAIN smem :
        (/\ i < k
         /\ smem[i].op = "w" /\ smem[k].op = "r"
         /\ smem[i].buf = smem[k].buf /\ smem[i].buf \in StagedBuffers
         /\ smem[i].stage # smem[k].stage)
        => smem[k].epoch > smem[i].epoch

\* an iteration has returned in which the score gradient stage read di and
\* the tile, the query gradient read tmp and the key gradient read tmpT
C19_Witness ==
    /\ callReturned
    /\ \E i \in DOMAIN smem : IsRead(smem[i], "di") /\ smem[i].stage = "doivj"
    /\ \E i \in DOMAIN smem : IsRead(smem[i], "attn") /\ smem[i].stage = "gradV"
    /\ \E i \in DOMAIN smem : IsRead(smem[i], "tmp") /\ smem[i].stage = "gradQ"
    /\ \E i \in DOMAIN smem : IsRead(smem[i], "tmpT") /\ smem[i].stage = "gradK"

\* the calls whose score gradient stage has run
PastScoreGradient ==
    { i \in 1 .. Len(calls) : i < Len(calls) \/ pc \notin {"pb", "qk", "gradV", "doivj"} }

Stored(op, i) == \E e \in bias_log : e.op = op /\ e.q = calls[i].q /\ e.k = calls[i].k

\* C20: in the score gradient stage every requested bias-gradient epilogue
\* (bias enabled and gradient pointer non-null) stores the score-gradient
\* tile as it is before the multiplication by scale, the tile stored for the
\* query and key gradient stages has been multiplied by scale exactly once,
\* and a bias gradient that is not requested is never written.
C20_BiasGradientUnscaled ==
    /\ \A e \in bias_log :
          /\ e.op \in {"store_grad_bias1", "store_grad_bias2"} => e.scaled = 0
          /\ e.op = "store_tmp" => e.scaled = 1
          /\ e.op = "store_grad_bias1" => biasGrad1
          /\ e.op = "store_grad_bias2" => biasGrad2
    /\ \A i \in PastScoreGradient :
          /\ Stored("store_tmp", i)
          /\ biasGrad1 => Stored("store_grad_bias1", i)
          /\ biasGrad2 => Stored("store_grad_bias2", i)

\* a kernel with both biases enabled has finished a launch in which only the
\* gradient of the first bias was requested
C20_Witness ==
    /\ pc = "done"
    /\ biasGrad1 /\ broadcast_2_kEnable /\ ~biasGrad2
    /\ Len(calls) >= 2
    /\ \A i \in 1 .. Len(calls) : Stored("store_grad_bias1", i)

-----------------------------------------------------------------------------
(* C21 .. C30 *)

IsZeroed(z, m, n) == m \in z.rows \/ n \in z.cols \/ <<m, n>> \in z.other

ScoreGradientStores == {"store_grad_bias1", "store_grad_bias2", "store_tmp"}

\* the call that made the access e was processBlockIJ<false>
Ragged(e) == \E i \in DOMAIN calls : calls[i].q = e.q /\ calls[i].k = e.k /\ ~calls[i].skip

\* C21: in a ragged tile (processBlockIJ<false>) every element of the
\* score-gradient tile whose query index is at or beyond num_queries_in_block
\* or whose key index is at or beyond num_keys_in_block is zero in the tile
\* each bias-gradient epilogue stores and in the tile stored for the query and
\* key gradient stages, and the delta loaded for a query row at or beyond
\* num_queries is zero.
C21_RaggedTileZeroed ==
    /\ \A e \in bias_log :
          (e.op \in ScoreGradientStores /\ Ragged(e)) =>
              \A m \in 0 .. kBlockSizeI - 1 : \A n \in 0 .. kBlockSizeJ - 1 :
                  (m >= e.rows \/ n >= e.cols) => IsZeroed(e.zero, m, n)
    /\ inStage =>
          \A t \in DOMAIN di : query_start + t >= p.num_queries => di[t] = Zero

\* a launch has finished in which a ragged tile with fewer valid queries and
\* fewer valid keys than the block sizes went to a bias gradient and to tmp
C21_Witness ==
    /\ pc = "done"
    /\ \E e \in bias_log : \E f \in bias_log :
          /\ e.op = "store_grad_bias2" /\ f.op = "store_tmp"
          /\ e.q = f.q /\ e.k = f.k /\ Ragged(e)
          /\ e.rows < kBlockSizeI /\ e.cols < kBlockSizeJ
          /\ e.zero.rows # {} /\ e.zero.cols # {} /\ f.zero = e.zero

Loads(e) == e.loads # <<>>

\* C22: with preloading, the coordinates passed to prologueQkNextIteration
\* at kernel start and at the end of each iteration are those of the next
\* processBlockIJ call, and every call has been prefetched; the key tile is
\* force-reloaded whenever the next iteration is on another key tile; the
\* call made after the last tile loads nothing; and a step that prefetches
\* leaves the GradValue register accumulator as it is and the GradKey one
\* with the value the key-gradient multiply alone gives it, so that the final
\* GradKey and GradValue are those of the schedule.
C22_PrefetchNextIteration ==
    /\ [](kPreload =>
            /\ \A i \in DOMAIN prefetch :
                  LET e == prefetch[i] IN
                  /\ e.after < Len(calls) =>
                        /\ calls[e.after + 1].q = e.q
                        /\ calls[e.after + 1].k = e.k
                        /\ Loads(e)
                  /\ (e.after >= 1 /\ e.k # calls[e.after].k) => e.kForceReloadK
                  /\ (e.kForceReloadK /\ Loads(e)) =>
                        \E j \in DOMAIN e.loads : IsWrite(e.loads[j], "mm_qk_k")
                  /\ (done /\ e.after = Len(calls)) => ~Loads(e)
            /\ \A n \in 0 .. Len(calls) - 1 :
                  \E i \in DOMAIN prefetch : prefetch[i].after = n
            /\ done =>
                  /\ grad_key = FromCalls(grad_key, p.num_keys, CallsOfKeyRow,
                                          QueryTermOf)
                  /\ grad_value = FromCalls(grad_value, p.num_keys,
                                            CallsOfKeyRow, QueryTermOf))
    /\ [][prefetch' # prefetch =>
            /\ output_frags'.gradV = output_frags.gradV
            /\ output_frags'.gradK =
                  IF pc = "gradK" THEN loadGradK(col \div kN_GradK) (+) queryRows
                  ELSE output_frags.gradK]_vars

\* a launch of a preloading kernel with register accumulators has finished:
\* every call was prefetched, one of them with the key tile reloaded, and the
\* call after the last tile loaded nothing
C22_Witness ==
    /\ done /\ kPreload /\ kOutputInRF
    /\ Len(calls) >= 4
    /\ Len(prefetch) = Len(calls) + 1
    /\ \E i \in DOMAIN prefetch :
          /\ prefetch[i].after >= 1 /\ prefetch[i].kForceReloadK
          /\ Loads(prefetch[i])
    /\ \E i \in DOMAIN prefetch :
          /\ prefetch[i].after >= 1 /\ ~prefetch[i].kForceReloadK
          /\ Loads(prefetch[i])
    /\ ~Loads(prefetch[Len(prefetch)])

Writes(buf) == { i \in DOMAIN smem : IsWrite(smem[i], buf) }
ReadsBy(stage, buf) == { i \in DOMAIN smem : IsRead(smem[i], buf) /\ smem[i].stage = stage }

\* the score gradient stage of the running or returned call is over
PastDOIVJ == smem # <<>> /\ pc \notin {"pb", "qk", "gradV", "doivj"}

\* C23: per kernel configuration exactly one representation of the
\* score-gradient operand of the key-gradient multiply exists: either the
\* score gradient stage writes the transposed tile tmpT and GradK reads tmpT,
\* or tmpT is never written and GradK reads tmp; never both, and every tile
\* GradK reads was written by the score gradient stage of the same iteration.
C23_OneTransposedOperand ==
    /\ \A i \in Writes("tmpT") : smem[i].stage = "doivj"
    /\ PastDOIVJ => (Writes("tmpT") # {} <=> ~kIsTransposedA)
    /\ ReadsBy("gradK", "tmpT") = {} \/ ReadsBy("gradK", "tmp") = {}
    /\ ReadsBy("gradK", "tmpT") # {} => Writes("tmpT") # {}
    /\ ReadsBy("gradK", "tmp") # {} => Writes("tmpT") = {}
    /\ callReturned =>
          ReadsBy("gradK", "tmpT") # {} \/ ReadsBy("gradK", "tmp") # {}
    /\ \A b \in {"tmp", "tmpT"} : \A k \in ReadsBy("gradK", b) :
          \E i \in Writes(b) : i < k /\ smem[i].stage = "doivj"

\* an iteration has returned in a kernel that transposes at the write, and
\* one in a kernel that transposes at the read
C23_WitnessAtWrite == callReturned /\ ~kIsTransposedA /\ ReadsBy("gradK", "tmpT") # {}
C23_WitnessAtRead == callReturned /\ kIsTransposedA /\ ReadsBy("gradK", "tmp") # {}

GradQWrites == { j \in 1 .. Len(writes) : writes[j].t = "gQ" }
OnFinalKeyTile(j) == calls[writes[j].call].k + kBlockSizeJ >= p.num_keys

\* (the claim as stated) the write of the GradQuery accumulator on the final
\* key tile of a query tile adds to the destination unless that key tile is
\* the very first (key_start = 0), where it overwrites.
C24_FinalFlushAdds ==
    \A j \in GradQWrites :
        OnFinalKeyTile(j) => (writes[j].first <=> calls[writes[j].call].k = 0)

\* C24: on the final key tile of a query tile the GradQuery accumulator goes
\* to the GradQuery tensor and not to the workspace.  With kNeedsAccumGradQ
\* that is the only write of the tile and it overwrites the destination, on
\* the first key tile and on any other, with the accumulator reloaded from
\* the workspace; without it every key tile writes to the tensor, overwriting
\* at key_start = 0 and adding otherwise.  Either way the tensor ends with the
\* contributions of all key tiles.
C24_FinalFlushPolicy ==
    /\ [](/\ \A j \in GradQWrites :
               IF kNeedsAccumGradQ
               THEN OnFinalKeyTile(j) /\ writes[j].first
               ELSE writes[j].first <=> calls[writes[j].call].k = 0
          /\ done => grad_query = FromCalls(grad_query, p.num_queries,
                                            CallsOfQueryRow, KeyTermOf))
    /\ [][(pc = "gradQ" /\ key_start + kBlockSizeJ >= p.num_keys) =>
            /\ workspace_gq' = workspace_gq
            /\ Len(writes') = Len(writes) + 1
            /\ writes'[Len(writes')].t = "gQ"
            /\ writes'[Len(writes')].row0 = query_start]_vars

\* a launch of a kernel with kNeedsAccumGradQ over several key tiles has
\* finished: the GradQuery tile of the first query tile was written once, on
\* the last key tile, by an overwriting epilogue
C24_Witness ==
    /\ done /\ kNeedsAccumGradQ /\ numKeyTiles >= 2
    /\ \E j \in GradQWrites :
          /\ writes[j].row0 = 0 /\ writes[j].first
          /\ calls[writes[j].call].k # 0 /\ OnFinalKeyTile(j)

KeySide == {"gk", "gv"}

\* (the claim as stated) a workspace slot belongs to one tile along the
\* non-reduced dimension: accesses of GradQuery to one slot are of one query
\* tile, and accesses of GradKey (GradValue) to one slot are of one key tile.
C25_SlotPerTile ==
    \A a \in ws_log : \A b \in ws_log :
        (a.plane = b.plane /\ a.ptr = b.ptr) =>
            IF a.plane = "gq" THEN a.q = b.q ELSE a.k = b.k

\* C25: a GradQuery slot is addressed by the query tile and the column chunk
\* (two accesses use one slot exactly when both agree), whatever the key
\* tile; a GradKey or GradValue slot is addressed by the column chunk alone,
\* so that the key tiles of a (batch, head) pair use the same slots one after
\* the other; slots of different accumulators are different.
C25_SlotAddressing ==
    \A a \in ws_log : \A b \in ws_log :
        /\ a.plane # b.plane => a.ptr # b.ptr
        /\ (a.plane = b.plane /\ a.plane = "gq") =>
              (a.ptr = b.ptr <=> (a.q = b.q /\ a.col = b.col))
        /\ (a.plane = b.plane /\ a.plane \in KeySide) =>
              (a.ptr = b.ptr <=> a.col = b.col)

\* a launch with two query tiles, several key tiles and two column chunks has
\* finished: two key tiles used one GradKey slot, two query tiles used
\* different GradQuery slots, and so did two column chunks
C25_Witness ==
    /\ pc = "done"
    /\ \E a \in ws_log : \E b \in ws_log :
          a.plane = "gk" /\ b.plane = "gk" /\ a.k # b.k /\ a.ptr = b.ptr
    /\ \E a \in ws_log : \E b \in ws_log :
          a.plane = "gq" /\ b.plane = "gq" /\ a.q # b.q /\ a.col = b.col
    /\ \E a \in ws_log : \E b \in ws_log :
          a.plane = "gq" /\ b.plane = "gq" /\ a.q = b.q /\ a.col # b.col

\* the calls whose query gradient stage has run
PastGradQ ==
    { i \in 1 .. Len(calls) : i < Len(calls) \/ pc \notin {"pb", "qk", "gradV", "doivj", "gradQ"} }

GradQLoaded(i) ==
    \E a \in ws_log :
        a.plane = "gq" /\ a.op = "load" /\ a.q = calls[i].q /\ a.k = calls[i].k
GradQStored(i) ==
    \E a \in ws_log :
        a.plane = "gq" /\ a.op = "store" /\ a.q = calls[i].q /\ a.k = calls[i].k

\* C26: isFirstQuery is true exactly in the first query-tile iteration of
\* each key tile and isLastQuery exactly in the last one (the next call, if
\* any, is on another key tile); for GradQuery, isFirst (the accumulator is
\* cleared, not loaded) holds exactly when key_start = 0 and isLast (the
\* accumulator goes to the output, not to the workspace) exactly on the last
\* key tile, key_start + kBlockSizeJ >= num_keys, for every query_start.
C26_FirstLastFlags ==
    /\ [](/\ inStage =>
               LET i == Len(calls) IN
               /\ query_start = calls[i].q /\ key_start = calls[i].k
               /\ isFirstQuery <=> (i = 1 \/ calls[i - 1].k # calls[i].k)
               /\ isLastQuery <=> calls[i].q + kBlockSizeI >= p.num_queries
               /\ isLastGradQ <=> key_start + kBlockSizeJ >= p.num_keys
          /\ (done /\ calls # <<>>) => isLastQuery
          /\ kNeedsAccumGradQ =>
               \A i \in PastGradQ :
                   /\ GradQLoaded(i) <=> calls[i].k # 0
                   /\ GradQStored(i) <=> calls[i].k + kBlockSizeJ < p.num_keys
          /\ done =>
               \A j \in GradQWrites :
                   /\ kNeedsAccumGradQ \/ (writes[j].first <=> calls[writes[j].call].k = 0)
                   /\ kNeedsAccumGradQ =>
                         writes[j].call = Last(CallsOfQueryRow(writes[j].row0)))
    /\ [][(Len(calls') = Len(calls) + 1 /\ Len(calls) >= 1) =>
            (isLastQuery <=> calls'[Len(calls')].k # calls[Len(calls)].k)]_vars

\* the second key tile of a launch with three query tiles and two key tiles
\* is in its last iteration, not its first, in a kernel that spills GradQuery
C26_Witness ==
    /\ pc = "gradK"
    /\ numQueryTiles = 3 /\ numKeyTiles = 2
    /\ Len(calls) = 6
    /\ isLastQuery /\ ~isFirstQuery /\ isLastGradQ
    /\ kNeedsAccumGradQ /\ GradQLoaded(6) /\ GradQStored(1)

Accumulators == {"gq", "gk", "gv"}
TensorOf(x) == CASE x = "gq" -> "gQ" [] x = "gk" -> "gK" [] x = "gv" -> "gV"
NeedsAccum(x) ==
    CASE x = "gq" -> kNeedsAccumGradQ
      [] x = "gk" -> kNeedsAccumGradK
      [] x = "gv" -> kNeedsAccumGradV

WritesOf(x) == { j \in 1 .. Len(writes) : writes[j].t = TensorOf(x) }

\* what a run shows of an accumulator: it was written from the registers
\* after the query loop, it was loaded from or stored to the workspace, its
\* product was added to the output tensor
RegisterMode(x) == \E j \in WritesOf(x) : writes[j].at = "keyend"
MemoryMode(x) == \E a \in ws_log : a.plane = x
DirectMode(x) == \E j \in WritesOf(x) : ~writes[j].first

SeveralTiles == numQueryTiles >= 2 /\ numKeyTiles >= 2

\* (the claim as stated) every accumulator is either kept in registers across
\* the inner loop or spilled to the workspace, never both and never neither.
C27_OneOfTwoModes ==
    (done /\ SeveralTiles) =>
        \A x \in Accumulators : RegisterMode(x) # MemoryMode(x)

\* C27: every accumulator uses exactly one of three modes for the whole run,
\* fixed by the kernel instantiation: GradKey and GradValue stay in registers
\* when kOutputInRF, go through the workspace when kNeedsAccumGradK /
\* kNeedsAccumGradV, and are otherwise (float) added to the output tensor at
\* every iteration; GradQuery is never in registers and goes through the
\* workspace when kNeedsAccumGradQ, else it is added to the output tensor.
\* kOutputInRF and kNeedsAccumGradK / kNeedsAccumGradV are never both true.
C27_OneModePerAccumulator ==
    /\ ~(kOutputInRF /\ kNeedsAccumGradK) /\ ~(kOutputInRF /\ kNeedsAccumGradV)
    /\ ~RegisterMode("gq")
    /\ \A x \in {"gk", "gv"} : RegisterMode(x) => kOutputInRF
    /\ \A x \in Accumulators :
          /\ MemoryMode(x) => NeedsAccum(x)
          /\ DirectMode(x) => ~NeedsAccum(x) /\ ~kIsHalf
          /\ ~(RegisterMode(x) /\ MemoryMode(x))
          /\ ~(RegisterMode(x) /\ DirectMode(x))
          /\ ~(MemoryMode(x) /\ DirectMode(x))
    /\ (done /\ SeveralTiles) =>
          /\ \A x \in {"gk", "gv"} :
                /\ RegisterMode(x) <=> kOutputInRF
                /\ MemoryMode(x) <=> NeedsAccum(x)
                /\ DirectMode(x) <=> ~kIsHalf
          /\ MemoryMode("gq") <=> kNeedsAccumGradQ
          /\ DirectMode("gq") <=> ~kIsHalf

\* a float kernel has finished a launch with several tiles each way: no
\* accumulator was in registers or in the workspace
C27_Witness ==
    /\ done /\ SeveralTiles /\ ~kIsHalf
    /\ \A x \in Accumulators : DirectMode(x) /\ ~RegisterMode(x) /\ ~MemoryMode(x)

\* the other two modes of GradKey
C27_WitnessRegisters == done /\ SeveralTiles /\ RegisterMode("gk") /\ MemoryMode("gq")
C27_WitnessWorkspace == done /\ SeveralTiles /\ MemoryMode("gk") /\ MemoryMode("gv")

CallOf(a) == CHOOSE i \in 1 .. Len(calls) : calls[i].q = a.q /\ calls[i].k = a.k

\* the stores made to the slot of the load a before the call of a, and the
\* last of them
StoresBefore(a) ==
    { b \in ws_log : b.op = "store" /\ b.ptr = a.ptr /\ CallOf(b) < CallOf(a) }
SourceOf(a) ==
    CHOOSE b \in StoresBefore(a) : \A c \in StoresBefore(a) : CallOf(c) <= CallOf(b)

\* the next step loads the accumulator from the workspace
Loading(x) ==
    CASE x = "gv" -> pc = "gradV" /\ ~kOutputInRF /\ ~(isFirstQuery \/ ~kNeedsAccumGradV)
      [] x = "gk" -> pc = "gradK" /\ ~kOutputInRF /\ ~(isFirstQuery \/ ~kNeedsAccumGradK)
      [] x = "gq" -> pc = "gradQ" /\ ~(key_start = 0 \/ ~kNeedsAccumGradQ)

\* the earlier calls of the running call's key tile (query tile)
EarlierOfKeyTile == { i \in 1 .. Len(calls) - 1 : calls[i].k = key_start }
EarlierOfQueryTile == { i \in 1 .. Len(calls) - 1 : calls[i].q = query_start }

\* the addresses of a slot the threads of the block load from are those they
\* stored to, fragment element by fragment element, no two threads share an
\* address, and all of them lie in the slot
SameThreadSameFragment ==
    /\ \A t \in Threads : GmemTile_load(0, t) = GmemTile_store(0, t)
    /\ Cardinality(UNION { { GmemTile_store(0, t)[e] : e \in 0 .. kElements - 1 } :
                             t \in Threads }) = kNumThreads * kElements
    /\ \A t \in Threads : \A e \in 0 .. kElements - 1 :
          GmemTile_load(0, t)[e] \in 0 .. kElementsStored - 1

\* C28: every workspace load returns, thread by thread, the fragment the
\* same thread stored in the preceding iteration that contributed to the same
\* output tile and column chunk (the previous call, on the same key tile, for
\* GradKey and GradValue; the call on the previous key tile with the same
\* query tile for GradQuery): the slot has been stored to in this launch, its
\* last store is that iteration's, and what is loaded holds the products of
\* the earlier iterations of the tile and nothing else.
C28_LoadReturnsOwnStore ==
    /\ \A a \in ws_log :
          a.op = "load" =>
              /\ StoresBefore(a) # {}
              /\ LET b == SourceOf(a) IN
                 /\ b.plane = a.plane /\ b.col = a.col
                 /\ IF a.plane = "gq"
                    THEN b.q = a.q /\ b.k = a.k - kBlockSizeJ
                    ELSE b.k = a.k /\ CallOf(b) = CallOf(a) - 1
    /\ Loading("gv") =>
          /\ workspace_gv[col \div kN_GradV] = Contributions(EarlierOfKeyTile, QueryTermOf)
          /\ SameThreadSameFragment
    /\ Loading("gk") =>
          /\ workspace_gk[col \div kN_GradK] = Contributions(EarlierOfKeyTile, QueryTermOf)
          /\ SameThreadSameFragment
    /\ Loading("gq") =>
          LET num_cols == IF kSingleIterationGradQ THEN 1
                          ELSE ceil_div(p.head_dim, kN_GradQ)
              storage_id == col \div kN_GradQ + (query_start \div kBlockSizeI) * num_cols
          IN  /\ workspace_gq[storage_id] = Contributions(EarlierOfQueryTile, KeyTermOf)
              /\ SameThreadSameFragment

\* a launch with three query tiles and three key tiles has finished after the
\* third iteration of a key tile loaded GradKey and the third key tile loaded
\* GradQuery
C28_Witness ==
    /\ done
    /\ numQueryTiles = 3 /\ numKeyTiles = 3
    /\ \E a \in ws_log :
          a.op = "load" /\ a.plane = "gk" /\ a.q = 2 * kBlockSizeI /\ a.k = kBlockSizeJ
    /\ \E a \in ws_log :
          a.op = "load" /\ a.plane = "gq" /\ a.k = 2 * kBlockSizeJ

------------------------------------------------------------------------------
(* C29 *)

\* the cells of the rows of an output tensor that belong to the problem
GradientCells ==
    { <<"gQ", r, c>> : r \in QueryRows, c \in DOMAIN grad_query[0] }
    \cup { <<"gK", r, c>> : r \in KeyRows, c \in DOMAIN grad_key[0] }
    \cup { <<"gV", r, c>> : r \in KeyRows, c \in DOMAIN grad_value[0] }

GradientCell(x) ==
    IF x[1] = "gQ" THEN grad_query[x[2]][x[3]]
    ELSE IF x[1] = "gK" THEN grad_key[x[2]][x[3]]
    ELSE grad_value[x[2]][x[3]]

\* the content memory had before the kernel is part of the value
DependsOnPriorMemory(value) == BagIn(Stale, value)

\* the cells of problem rows a write covered
CellsOf(w) ==
    { x \in GradientCells :
        x[1] = w.t /\ x[3] = w.c /\ x[2] >= w.row0 /\ x[2] < w.row0 + w.nrows }

\* no earlier write went to the tile of the j-th write
FirstWriteToItsTile(j) ==
    \A i \in 1 .. j - 1 :
        ~(writes[i].t = writes[j].t /\ writes[i].row0 = writes[j].row0
          /\ writes[i].c = writes[j].c)

\* C29: the final GradQuery, GradKey and GradValue do not depend on what the
\* output tensors or the workspace held before the kernel: the first write to
\* every output tile overwrites, no cell that has been written and no
\* workspace slot that is loaded carries prior content, and at the end no cell
\* of a problem row carries any.
C29_IndependentOfPriorMemory ==
    /\ \A j \in 1 .. Len(writes) :
          /\ FirstWriteToItsTile(j) => writes[j].first
          /\ \A x \in CellsOf(writes[j]) : ~DependsOnPriorMemory(GradientCell(x))
    /\ \A a \in ws_log : a.op = "load" => StoresBefore(a) # {}
    /\ Loading("gv") => ~DependsOnPriorMemory(workspace_gv[col \div kN_GradV])
    /\ Loading("gk") => ~DependsOnPriorMemory(workspace_gk[col \div kN_GradK])
    /\ Loading("gq") =>
          LET num_cols == IF kSingleIterationGradQ THEN 1
                          ELSE ceil_div(p.head_dim, kN_GradQ)
              storage_id == col \div kN_GradQ + (query_start \div kBlockSizeI) * num_cols
          IN  ~DependsOnPriorMemory(workspace_gq[storage_id])
    /\ done =>
          \A x \in GradientCells : ~DependsOnPriorMemory(GradientCell(x))

\* a finished float problem of several tiles either way, with padding rows of
\* the key tensors still holding the prior content and every problem cell
\* of the three gradients computed
C29_Witness ==
    /\ done
    /\ SeveralTiles
    /\ ~kIsHalf
    /\ p.num_keys % kBlockSizeJ # 0
    /\ grad_key[p.num_keys][0] = StaleBag
    /\ \A x \in GradientCells :
          /\ GradientCell(x) # Zero
          /\ ~DependsOnPriorMemory(GradientCell(x))

------------------------------------------------------------------------------
(* C30 *)

\* the mathematical value of b * num_heads * num_queries * num_keys
\* + head_id * num_queries * num_keys, at a width no product of the model
\* exceeds
Exact(n) == Bytes(n, kExactBytes)
ExactStrideH == Mul(Exact(p.num_queries), Exact(p.num_keys))
ExactStrideB == Mul(Exact(p.num_heads), ExactStrideH)
ExactOffset(b) ==
    Add(Mul(Exact(b), ExactStrideB), Mul(Exact(p.head_id), ExactStrideH))

\* the signed 64-bit value x is the number e
Is(x, e) == x[kInt64Bytes] < 128 /\ ZeroExtend(x, kExactBytes) = e

advanced == block # <<>>

\* C30: for every parameter set check_supported accepts, the RNG offset, the
\* offset of the pairwise-bias gradient and the batch and head strides of the
\* pairwise bias that advance_to_block derives from num_heads * num_queries *
\* num_keys are the exact products.
C30_OffsetsExact ==
    advanced =>
        LET r == block[1] IN
        /\ Is(r.dropout_batch_head_rng_offset, ExactOffset(p.batch_id))
        /\ r.grad_bias2_ptr # <<>> =>
              Is(r.grad_bias2_ptr, ExactOffset(p.batch_id \div p.N))
        /\ r.bias2_strides # <<>> =>
              /\ Is(r.bias2_strides[1], ExactStrideB)
              /\ Is(r.bias2_strides[2], ExactStrideH)

====
